---------------------------- MODULE Spec2Model ----------------------------
(***************************************************************************)
(* Hybrid recommendation engine of AgriSoil AI:                            *)
(*   backend/app/services/rule_engine.py  (CROP_RULES, RuleValidator)      *)
(*   backend/app/services/ml_service.py   (MLService.predict_crop,         *)
(*                                         predict_soil_type,              *)
(*                                         hybrid_analyze)                 *)
(*                                                                         *)
(* Number representation.  The code computes with Python floats; the model *)
(* computes with exact decimals held in integers:                          *)
(*   ph, humidity                      tenths            (6.0  -> 60)      *)
(*   nitrogen, phosphorus, potassium,                                      *)
(*   temperature, rainfall             units                               *)
(*   validation_score                  tenths            (81.7 -> 817)     *)
(*   classifier confidence             hundredths        (66.6 -> 6660)    *)
(*   final_crop_confidence, base_score,                                    *)
(*   final_score (before rounding)     thousandths       (79.96 -> 79960)  *)
(*   reported final_score              tenths                              *)
(* Binary floating point error (76.0 * 0.7 = 53.199999999999996) is not    *)
(* represented.                                                            *)
(*                                                                         *)
(* Strings built with f-strings are records [kind, crop, num, txt]; crop   *)
(* names are strings with str.lower / str.capitalize given as tables.      *)
(***************************************************************************)
EXTENDS Integers, Sequences, FiniteSets, TLC

(***************************************************************************)
(* CROP_RULES, in dictionary insertion order.  ph_* in tenths.             *)
(***************************************************************************)
CROP_RULES ==
  <<
    [ key |-> "rice", crop_name |-> "Rice",
      ph_min |-> 50, ph_max |-> 80, ph_optimal_min |-> 55, ph_optimal_max |-> 65,
      preferred_soils |-> <<"Clayey", "Loamy", "Riverine Alluvial", "Coastal Alluvial">>,
      acceptable_soils |-> <<"Silty", "Black Cotton">>,
      min_rainfall |-> 150, max_rainfall |-> 300, optimal_rainfall_min |-> 180, optimal_rainfall_max |-> 250,
      min_temperature |-> 20, max_temperature |-> 40, optimal_temp_min |-> 22, optimal_temp_max |-> 32,
      nitrogen_need |-> "High", phosphorus_need |-> "Moderate", potassium_need |-> "Moderate",
      min_humidity |-> 70, max_humidity |-> 100 ],
    [ key |-> "wheat", crop_name |-> "Wheat",
      ph_min |-> 55, ph_max |-> 80, ph_optimal_min |-> 60, ph_optimal_max |-> 70,
      preferred_soils |-> <<"Loamy", "Clayey">>,
      acceptable_soils |-> <<"Silty">>,
      min_rainfall |-> 50, max_rainfall |-> 150, optimal_rainfall_min |-> 75, optimal_rainfall_max |-> 100,
      min_temperature |-> 10, max_temperature |-> 30, optimal_temp_min |-> 12, optimal_temp_max |-> 25,
      nitrogen_need |-> "High", phosphorus_need |-> "Moderate", potassium_need |-> "Low",
      min_humidity |-> 50, max_humidity |-> 85 ],
    [ key |-> "maize", crop_name |-> "Maize",
      ph_min |-> 55, ph_max |-> 80, ph_optimal_min |-> 58, ph_optimal_max |-> 70,
      preferred_soils |-> <<"Loamy", "Sandy">>,
      acceptable_soils |-> <<"Clayey", "Silty">>,
      min_rainfall |-> 60, max_rainfall |-> 120, optimal_rainfall_min |-> 80, optimal_rainfall_max |-> 110,
      min_temperature |-> 18, max_temperature |-> 35, optimal_temp_min |-> 21, optimal_temp_max |-> 30,
      nitrogen_need |-> "High", phosphorus_need |-> "Moderate", potassium_need |-> "Moderate",
      min_humidity |-> 50, max_humidity |-> 80 ],
    [ key |-> "cotton", crop_name |-> "Cotton",
      ph_min |-> 55, ph_max |-> 85, ph_optimal_min |-> 60, ph_optimal_max |-> 75,
      preferred_soils |-> <<"Clayey", "Loamy">>,
      acceptable_soils |-> <<"Silty">>,
      min_rainfall |-> 50, max_rainfall |-> 150, optimal_rainfall_min |-> 80, optimal_rainfall_max |-> 120,
      min_temperature |-> 20, max_temperature |-> 40, optimal_temp_min |-> 25, optimal_temp_max |-> 35,
      nitrogen_need |-> "High", phosphorus_need |-> "Moderate", potassium_need |-> "High",
      min_humidity |-> 40, max_humidity |-> 70 ],
    [ key |-> "jute", crop_name |-> "Jute",
      ph_min |-> 50, ph_max |-> 80, ph_optimal_min |-> 60, ph_optimal_max |-> 70,
      preferred_soils |-> <<"Loamy", "Clayey">>,
      acceptable_soils |-> <<"Silty">>,
      min_rainfall |-> 150, max_rainfall |-> 250, optimal_rainfall_min |-> 170, optimal_rainfall_max |-> 230,
      min_temperature |-> 25, max_temperature |-> 38, optimal_temp_min |-> 27, optimal_temp_max |-> 35,
      nitrogen_need |-> "High", phosphorus_need |-> "Moderate", potassium_need |-> "Moderate",
      min_humidity |-> 70, max_humidity |-> 90 ],
    [ key |-> "coffee", crop_name |-> "Coffee",
      ph_min |-> 45, ph_max |-> 65, ph_optimal_min |-> 50, ph_optimal_max |-> 60,
      preferred_soils |-> <<"Loamy", "Forest Loam", "Red Loam", "Laterite">>,
      acceptable_soils |-> <<"Clayey", "Silty", "Brown Hydromorphic">>,
      min_rainfall |-> 150, max_rainfall |-> 300, optimal_rainfall_min |-> 180, optimal_rainfall_max |-> 250,
      min_temperature |-> 15, max_temperature |-> 30, optimal_temp_min |-> 18, optimal_temp_max |-> 25,
      nitrogen_need |-> "Moderate", phosphorus_need |-> "Moderate", potassium_need |-> "High",
      min_humidity |-> 60, max_humidity |-> 90 ],
    [ key |-> "banana", crop_name |-> "Banana",
      ph_min |-> 55, ph_max |-> 75, ph_optimal_min |-> 60, ph_optimal_max |-> 70,
      preferred_soils |-> <<"Loamy", "Riverine Alluvial", "Coastal Alluvial">>,
      acceptable_soils |-> <<"Clayey", "Silty", "Red Loam", "Laterite">>,
      min_rainfall |-> 100, max_rainfall |-> 250, optimal_rainfall_min |-> 150, optimal_rainfall_max |-> 200,
      min_temperature |-> 20, max_temperature |-> 35, optimal_temp_min |-> 25, optimal_temp_max |-> 32,
      nitrogen_need |-> "High", phosphorus_need |-> "Moderate", potassium_need |-> "High",
      min_humidity |-> 70, max_humidity |-> 90 ],
    [ key |-> "mango", crop_name |-> "Mango",
      ph_min |-> 55, ph_max |-> 75, ph_optimal_min |-> 60, ph_optimal_max |-> 70,
      preferred_soils |-> <<"Loamy", "Sandy", "Red Loam", "Laterite">>,
      acceptable_soils |-> <<"Clayey", "Forest Loam", "Brown Hydromorphic">>,
      min_rainfall |-> 75, max_rainfall |-> 250, optimal_rainfall_min |-> 100, optimal_rainfall_max |-> 200,
      min_temperature |-> 21, max_temperature |-> 45, optimal_temp_min |-> 24, optimal_temp_max |-> 35,
      nitrogen_need |-> "Moderate", phosphorus_need |-> "Low", potassium_need |-> "Moderate",
      min_humidity |-> 40, max_humidity |-> 80 ],
    [ key |-> "apple", crop_name |-> "Apple",
      ph_min |-> 55, ph_max |-> 70, ph_optimal_min |-> 60, ph_optimal_max |-> 68,
      preferred_soils |-> <<"Loamy">>,
      acceptable_soils |-> <<"Sandy", "Silty">>,
      min_rainfall |-> 100, max_rainfall |-> 200, optimal_rainfall_min |-> 125, optimal_rainfall_max |-> 175,
      min_temperature |-> 8, max_temperature |-> 28, optimal_temp_min |-> 10, optimal_temp_max |-> 22,
      nitrogen_need |-> "Moderate", phosphorus_need |-> "Low", potassium_need |-> "Moderate",
      min_humidity |-> 50, max_humidity |-> 80 ],
    [ key |-> "grapes", crop_name |-> "Grapes",
      ph_min |-> 55, ph_max |-> 80, ph_optimal_min |-> 60, ph_optimal_max |-> 70,
      preferred_soils |-> <<"Loamy", "Sandy">>,
      acceptable_soils |-> <<"Clayey">>,
      min_rainfall |-> 50, max_rainfall |-> 150, optimal_rainfall_min |-> 75, optimal_rainfall_max |-> 100,
      min_temperature |-> 15, max_temperature |-> 40, optimal_temp_min |-> 20, optimal_temp_max |-> 35,
      nitrogen_need |-> "Moderate", phosphorus_need |-> "Low", potassium_need |-> "High",
      min_humidity |-> 40, max_humidity |-> 70 ],
    [ key |-> "orange", crop_name |-> "Orange",
      ph_min |-> 50, ph_max |-> 80, ph_optimal_min |-> 55, ph_optimal_max |-> 70,
      preferred_soils |-> <<"Loamy", "Sandy">>,
      acceptable_soils |-> <<"Clayey">>,
      min_rainfall |-> 100, max_rainfall |-> 200, optimal_rainfall_min |-> 120, optimal_rainfall_max |-> 180,
      min_temperature |-> 13, max_temperature |-> 38, optimal_temp_min |-> 20, optimal_temp_max |-> 30,
      nitrogen_need |-> "Moderate", phosphorus_need |-> "Moderate", potassium_need |-> "Moderate",
      min_humidity |-> 50, max_humidity |-> 80 ],
    [ key |-> "papaya", crop_name |-> "Papaya",
      ph_min |-> 55, ph_max |-> 75, ph_optimal_min |-> 60, ph_optimal_max |-> 70,
      preferred_soils |-> <<"Loamy", "Sandy">>,
      acceptable_soils |-> <<"Silty">>,
      min_rainfall |-> 100, max_rainfall |-> 250, optimal_rainfall_min |-> 150, optimal_rainfall_max |-> 200,
      min_temperature |-> 20, max_temperature |-> 38, optimal_temp_min |-> 25, optimal_temp_max |-> 32,
      nitrogen_need |-> "High", phosphorus_need |-> "Moderate", potassium_need |-> "High",
      min_humidity |-> 60, max_humidity |-> 85 ],
    [ key |-> "coconut", crop_name |-> "Coconut",
      ph_min |-> 50, ph_max |-> 80, ph_optimal_min |-> 55, ph_optimal_max |-> 70,
      preferred_soils |-> <<"Sandy", "Loamy", "Coastal Alluvial", "Laterite", "Red Loam">>,
      acceptable_soils |-> <<"Clayey", "Riverine Alluvial">>,
      min_rainfall |-> 150, max_rainfall |-> 300, optimal_rainfall_min |-> 180, optimal_rainfall_max |-> 250,
      min_temperature |-> 20, max_temperature |-> 35, optimal_temp_min |-> 25, optimal_temp_max |-> 32,
      nitrogen_need |-> "Moderate", phosphorus_need |-> "Low", potassium_need |-> "High",
      min_humidity |-> 70, max_humidity |-> 95 ],
    [ key |-> "chickpea", crop_name |-> "Chickpea",
      ph_min |-> 55, ph_max |-> 85, ph_optimal_min |-> 60, ph_optimal_max |-> 75,
      preferred_soils |-> <<"Loamy", "Clayey">>,
      acceptable_soils |-> <<"Sandy", "Silty">>,
      min_rainfall |-> 40, max_rainfall |-> 100, optimal_rainfall_min |-> 60, optimal_rainfall_max |-> 80,
      min_temperature |-> 10, max_temperature |-> 30, optimal_temp_min |-> 15, optimal_temp_max |-> 25,
      nitrogen_need |-> "Low", phosphorus_need |-> "Moderate", potassium_need |-> "Low",
      min_humidity |-> 40, max_humidity |-> 70 ],
    [ key |-> "lentil", crop_name |-> "Lentil",
      ph_min |-> 55, ph_max |-> 80, ph_optimal_min |-> 60, ph_optimal_max |-> 70,
      preferred_soils |-> <<"Loamy", "Sandy">>,
      acceptable_soils |-> <<"Clayey", "Silty">>,
      min_rainfall |-> 25, max_rainfall |-> 100, optimal_rainfall_min |-> 40, optimal_rainfall_max |-> 75,
      min_temperature |-> 10, max_temperature |-> 30, optimal_temp_min |-> 15, optimal_temp_max |-> 25,
      nitrogen_need |-> "Low", phosphorus_need |-> "Moderate", potassium_need |-> "Low",
      min_humidity |-> 30, max_humidity |-> 70 ],
    [ key |-> "pigeonpeas", crop_name |-> "Pigeonpeas",
      ph_min |-> 50, ph_max |-> 80, ph_optimal_min |-> 55, ph_optimal_max |-> 70,
      preferred_soils |-> <<"Loamy", "Sandy">>,
      acceptable_soils |-> <<"Clayey">>,
      min_rainfall |-> 60, max_rainfall |-> 150, optimal_rainfall_min |-> 80, optimal_rainfall_max |-> 120,
      min_temperature |-> 18, max_temperature |-> 35, optimal_temp_min |-> 22, optimal_temp_max |-> 30,
      nitrogen_need |-> "Low", phosphorus_need |-> "Moderate", potassium_need |-> "Low",
      min_humidity |-> 40, max_humidity |-> 80 ],
    [ key |-> "mothbeans", crop_name |-> "Mothbeans",
      ph_min |-> 50, ph_max |-> 85, ph_optimal_min |-> 60, ph_optimal_max |-> 75,
      preferred_soils |-> <<"Sandy", "Loamy">>,
      acceptable_soils |-> <<"Clayey">>,
      min_rainfall |-> 25, max_rainfall |-> 75, optimal_rainfall_min |-> 35, optimal_rainfall_max |-> 60,
      min_temperature |-> 24, max_temperature |-> 40, optimal_temp_min |-> 28, optimal_temp_max |-> 35,
      nitrogen_need |-> "Low", phosphorus_need |-> "Low", potassium_need |-> "Low",
      min_humidity |-> 30, max_humidity |-> 60 ],
    [ key |-> "mungbean", crop_name |-> "Mungbean",
      ph_min |-> 55, ph_max |-> 80, ph_optimal_min |-> 60, ph_optimal_max |-> 70,
      preferred_soils |-> <<"Loamy", "Sandy">>,
      acceptable_soils |-> <<"Clayey">>,
      min_rainfall |-> 50, max_rainfall |-> 100, optimal_rainfall_min |-> 60, optimal_rainfall_max |-> 85,
      min_temperature |-> 20, max_temperature |-> 38, optimal_temp_min |-> 25, optimal_temp_max |-> 32,
      nitrogen_need |-> "Low", phosphorus_need |-> "Moderate", potassium_need |-> "Low",
      min_humidity |-> 50, max_humidity |-> 80 ],
    [ key |-> "blackgram", crop_name |-> "Blackgram",
      ph_min |-> 55, ph_max |-> 80, ph_optimal_min |-> 60, ph_optimal_max |-> 70,
      preferred_soils |-> <<"Loamy", "Clayey">>,
      acceptable_soils |-> <<"Sandy", "Silty">>,
      min_rainfall |-> 60, max_rainfall |-> 120, optimal_rainfall_min |-> 75, optimal_rainfall_max |-> 100,
      min_temperature |-> 25, max_temperature |-> 38, optimal_temp_min |-> 27, optimal_temp_max |-> 33,
      nitrogen_need |-> "Low", phosphorus_need |-> "Moderate", potassium_need |-> "Low",
      min_humidity |-> 60, max_humidity |-> 85 ],
    [ key |-> "kidneybeans", crop_name |-> "Kidneybeans",
      ph_min |-> 55, ph_max |-> 75, ph_optimal_min |-> 60, ph_optimal_max |-> 70,
      preferred_soils |-> <<"Loamy">>,
      acceptable_soils |-> <<"Clayey", "Sandy">>,
      min_rainfall |-> 60, max_rainfall |-> 150, optimal_rainfall_min |-> 80, optimal_rainfall_max |-> 120,
      min_temperature |-> 15, max_temperature |-> 30, optimal_temp_min |-> 18, optimal_temp_max |-> 25,
      nitrogen_need |-> "Low", phosphorus_need |-> "High", potassium_need |-> "Moderate",
      min_humidity |-> 50, max_humidity |-> 80 ],
    [ key |-> "pomegranate", crop_name |-> "Pomegranate",
      ph_min |-> 55, ph_max |-> 80, ph_optimal_min |-> 60, ph_optimal_max |-> 75,
      preferred_soils |-> <<"Loamy", "Sandy">>,
      acceptable_soils |-> <<"Clayey">>,
      min_rainfall |-> 50, max_rainfall |-> 150, optimal_rainfall_min |-> 75, optimal_rainfall_max |-> 120,
      min_temperature |-> 18, max_temperature |-> 40, optimal_temp_min |-> 22, optimal_temp_max |-> 35,
      nitrogen_need |-> "Moderate", phosphorus_need |-> "Low", potassium_need |-> "Moderate",
      min_humidity |-> 35, max_humidity |-> 70 ],
    [ key |-> "watermelon", crop_name |-> "Watermelon",
      ph_min |-> 55, ph_max |-> 75, ph_optimal_min |-> 60, ph_optimal_max |-> 70,
      preferred_soils |-> <<"Sandy", "Loamy">>,
      acceptable_soils |-> <<"Silty">>,
      min_rainfall |-> 40, max_rainfall |-> 80, optimal_rainfall_min |-> 50, optimal_rainfall_max |-> 70,
      min_temperature |-> 22, max_temperature |-> 38, optimal_temp_min |-> 25, optimal_temp_max |-> 32,
      nitrogen_need |-> "Moderate", phosphorus_need |-> "Moderate", potassium_need |-> "High",
      min_humidity |-> 50, max_humidity |-> 80 ],
    [ key |-> "muskmelon", crop_name |-> "Muskmelon",
      ph_min |-> 55, ph_max |-> 75, ph_optimal_min |-> 60, ph_optimal_max |-> 68,
      preferred_soils |-> <<"Sandy", "Loamy">>,
      acceptable_soils |-> <<"Silty">>,
      min_rainfall |-> 35, max_rainfall |-> 75, optimal_rainfall_min |-> 45, optimal_rainfall_max |-> 65,
      min_temperature |-> 20, max_temperature |-> 38, optimal_temp_min |-> 24, optimal_temp_max |-> 32,
      nitrogen_need |-> "Moderate", phosphorus_need |-> "Moderate", potassium_need |-> "High",
      min_humidity |-> 45, max_humidity |-> 75 ]
  >>

(***************************************************************************)
(* Helpers for Python containers and strings.                              *)
(***************************************************************************)
InList(x, s) == \E i \in 1..Len(s) : s[i] = x

EmptyDict == [k \in {} |-> TRUE]

Get(d, k, default) == IF k \in DOMAIN d THEN d[k] ELSE default

\* Python None for an Optional[float]: <<>>; a value v: <<v>>.
None == <<>>

Some(v) == <<v>>

RuleIndexSet == DOMAIN CROP_RULES

\* the keys of a rule table
KeysOf(rules) == {rules[i].key : i \in DOMAIN rules}

\* position of each key in a rule table
IndexOf(rules) == [k \in KeysOf(rules) |-> CHOOSE i \in DOMAIN rules : rules[i].key = k]

\* a rule table as a mapping from key to rule
ByKey(rules) == [k \in KeysOf(rules) |-> rules[CHOOSE i \in DOMAIN rules : rules[i].key = k]]

CropKeys == KeysOf(CROP_RULES)

\* position of a key in CROP_RULES
KeyIndex == IndexOf(CROP_RULES)

\* CROP_RULES as the dictionary it is
RuleTable == ByKey(CROP_RULES)

\* crop_key in CROP_RULES
InRules(crop_key) == crop_key \in CropKeys

\* a table entry whose optimal pH interval is given upside down
RuleOf_OptimalInverted(crop_key) ==
  [RuleTable[crop_key] EXCEPT !.ph_optimal_min = RuleTable[crop_key].ph_optimal_max,
                              !.ph_optimal_max = RuleTable[crop_key].ph_optimal_min]

\* CROP_RULES[crop_key]
RuleOf(crop_key) == RuleTable[crop_key]

\* Strings that are not all lower case, with str.lower() of each: the
\* capitalised crop names, the default "Unknown", and classifier labels in
\* other spellings.
LowerNames(rules) ==
  [s \in {rules[i].crop_name : i \in DOMAIN rules} |->
     rules[CHOOSE i \in DOMAIN rules : rules[i].crop_name = s].key]

LowerTable ==
  LowerNames(CROP_RULES)
  @@ [s \in {"Unknown"} |-> "unknown"]
  @@ [s \in {"Sugarcane"} |-> "sugarcane"]
  @@ [s \in {"RICE"} |-> "rice"]

\* str.capitalize() of each lower-case string: first character upper case
CapitalNames(rules) ==
  [k \in KeysOf(rules) |-> rules[CHOOSE i \in DOMAIN rules : rules[i].key = k].crop_name]

CapitalizeTable ==
  CapitalNames(CROP_RULES)
  @@ [s \in {"unknown"} |-> "Unknown"]
  @@ [s \in {"sugarcane"} |-> "Sugarcane"]

\* str.lower()
Lower(s) == Get(LowerTable, s, s)

\* str.capitalize()
Capitalize(s) == CapitalizeTable[Lower(s)]

\* The characters of each string literal of the rule table (a key or a
\* crop_name), in order.
Spelling ==
  "rice" :> <<"r", "i", "c", "e">> @@
  "Rice" :> <<"R", "i", "c", "e">> @@
  "wheat" :> <<"w", "h", "e", "a", "t">> @@
  "Wheat" :> <<"W", "h", "e", "a", "t">> @@
  "maize" :> <<"m", "a", "i", "z", "e">> @@
  "Maize" :> <<"M", "a", "i", "z", "e">> @@
  "cotton" :> <<"c", "o", "t", "t", "o", "n">> @@
  "Cotton" :> <<"C", "o", "t", "t", "o", "n">> @@
  "jute" :> <<"j", "u", "t", "e">> @@
  "Jute" :> <<"J", "u", "t", "e">> @@
  "coffee" :> <<"c", "o", "f", "f", "e", "e">> @@
  "Coffee" :> <<"C", "o", "f", "f", "e", "e">> @@
  "banana" :> <<"b", "a", "n", "a", "n", "a">> @@
  "Banana" :> <<"B", "a", "n", "a", "n", "a">> @@
  "mango" :> <<"m", "a", "n", "g", "o">> @@
  "Mango" :> <<"M", "a", "n", "g", "o">> @@
  "apple" :> <<"a", "p", "p", "l", "e">> @@
  "Apple" :> <<"A", "p", "p", "l", "e">> @@
  "grapes" :> <<"g", "r", "a", "p", "e", "s">> @@
  "Grapes" :> <<"G", "r", "a", "p", "e", "s">> @@
  "orange" :> <<"o", "r", "a", "n", "g", "e">> @@
  "Orange" :> <<"O", "r", "a", "n", "g", "e">> @@
  "papaya" :> <<"p", "a", "p", "a", "y", "a">> @@
  "Papaya" :> <<"P", "a", "p", "a", "y", "a">> @@
  "coconut" :> <<"c", "o", "c", "o", "n", "u", "t">> @@
  "Coconut" :> <<"C", "o", "c", "o", "n", "u", "t">> @@
  "chickpea" :> <<"c", "h", "i", "c", "k", "p", "e", "a">> @@
  "Chickpea" :> <<"C", "h", "i", "c", "k", "p", "e", "a">> @@
  "lentil" :> <<"l", "e", "n", "t", "i", "l">> @@
  "Lentil" :> <<"L", "e", "n", "t", "i", "l">> @@
  "pigeonpeas" :> <<"p", "i", "g", "e", "o", "n", "p", "e", "a", "s">> @@
  "Pigeonpeas" :> <<"P", "i", "g", "e", "o", "n", "p", "e", "a", "s">> @@
  "mothbeans" :> <<"m", "o", "t", "h", "b", "e", "a", "n", "s">> @@
  "Mothbeans" :> <<"M", "o", "t", "h", "b", "e", "a", "n", "s">> @@
  "mungbean" :> <<"m", "u", "n", "g", "b", "e", "a", "n">> @@
  "Mungbean" :> <<"M", "u", "n", "g", "b", "e", "a", "n">> @@
  "blackgram" :> <<"b", "l", "a", "c", "k", "g", "r", "a", "m">> @@
  "Blackgram" :> <<"B", "l", "a", "c", "k", "g", "r", "a", "m">> @@
  "kidneybeans" :> <<"k", "i", "d", "n", "e", "y", "b", "e", "a", "n", "s">> @@
  "Kidneybeans" :> <<"K", "i", "d", "n", "e", "y", "b", "e", "a", "n", "s">> @@
  "pomegranate" :> <<"p", "o", "m", "e", "g", "r", "a", "n", "a", "t", "e">> @@
  "Pomegranate" :> <<"P", "o", "m", "e", "g", "r", "a", "n", "a", "t", "e">> @@
  "watermelon" :> <<"w", "a", "t", "e", "r", "m", "e", "l", "o", "n">> @@
  "Watermelon" :> <<"W", "a", "t", "e", "r", "m", "e", "l", "o", "n">> @@
  "muskmelon" :> <<"m", "u", "s", "k", "m", "e", "l", "o", "n">> @@
  "Muskmelon" :> <<"M", "u", "s", "k", "m", "e", "l", "o", "n">>

\* the upper-case letters with their lower-case forms
UpperToLower ==
  "A" :> "a" @@ "B" :> "b" @@ "C" :> "c" @@ "D" :> "d" @@ "E" :> "e" @@ "F" :> "f" @@
  "G" :> "g" @@ "H" :> "h" @@ "I" :> "i" @@ "J" :> "j" @@ "K" :> "k" @@ "L" :> "l" @@
  "M" :> "m" @@ "N" :> "n" @@ "O" :> "o" @@ "P" :> "p" @@ "Q" :> "q" @@ "R" :> "r" @@
  "S" :> "s" @@ "T" :> "t" @@ "U" :> "u" @@ "V" :> "v" @@ "W" :> "w" @@ "X" :> "x" @@
  "Y" :> "y" @@ "Z" :> "z"

\* str.lower() character by character
LowerChars(chars) == [i \in DOMAIN chars |-> Get(UpperToLower, chars[i], chars[i])]

\* An f-string: its template (kind) and the values substituted into it.
Msg(kind, crop, num, txt) == [kind |-> kind, crop |-> crop, num |-> num, txt |-> txt, level |-> ""]

NutrientMsg(kind, crop, nutrient, level) == [kind |-> kind, crop |-> crop, num |-> 0, txt |-> nutrient, level |-> level]

(***************************************************************************)
(* RuleValidator: field validators.                                        *)
(***************************************************************************)
NutrientThreshold(nutrient_type) ==
  CASE nutrient_type = "N" -> [low |-> 40, high |-> 80]
    [] nutrient_type = "P" -> [low |-> 30, high |-> 60]
    [] nutrient_type = "K" -> [low |-> 40, high |-> 70]
    [] OTHER -> [low |-> 40, high |-> 70]

\* the classification with the upper threshold itself counted as High
get_nutrient_level_Inclusive(value, nutrient_type) ==
  LET thresh == NutrientThreshold(nutrient_type) IN
  IF value < thresh.low THEN "Low"
  ELSE IF value >= thresh.high THEN "High"
  ELSE "Moderate"

get_nutrient_level(value, nutrient_type) ==
  LET thresh == NutrientThreshold(nutrient_type) IN
  IF value < thresh.low THEN "Low"
  ELSE IF value > thresh.high THEN "High"
  ELSE "Moderate"

\* validate_ph with the acceptable interval open at both ends
validate_ph_Exclusive(ph, rule) ==
  IF rule.ph_optimal_min <= ph /\ ph <= rule.ph_optimal_max
    THEN [passed |-> TRUE, optimal |-> TRUE, message |-> Msg("ph_optimal", rule.crop_name, ph, "")]
  ELSE IF rule.ph_min < ph /\ ph < rule.ph_max
    THEN [passed |-> TRUE, optimal |-> FALSE, message |-> Msg("ph_acceptable", rule.crop_name, ph, "")]
  ELSE [passed |-> FALSE, optimal |-> FALSE, message |-> Msg("ph_outside", rule.crop_name, ph, "")]

validate_ph(ph, rule) ==
  IF rule.ph_optimal_min <= ph /\ ph <= rule.ph_optimal_max
    THEN [passed |-> TRUE, optimal |-> TRUE, message |-> Msg("ph_optimal", rule.crop_name, ph, "")]
  ELSE IF rule.ph_min <= ph /\ ph <= rule.ph_max
    THEN [passed |-> TRUE, optimal |-> FALSE, message |-> Msg("ph_acceptable", rule.crop_name, ph, "")]
  ELSE [passed |-> FALSE, optimal |-> FALSE, message |-> Msg("ph_outside", rule.crop_name, ph, "")]

validate_soil_type(soil_type, rule) ==
  IF InList(soil_type, rule.preferred_soils)
    THEN [passed |-> TRUE, preferred |-> TRUE, message |-> Msg("soil_preferred", rule.crop_name, 0, soil_type)]
  ELSE IF InList(soil_type, rule.acceptable_soils)
    THEN [passed |-> TRUE, preferred |-> FALSE, message |-> Msg("soil_acceptable", rule.crop_name, 0, soil_type)]
  ELSE [passed |-> FALSE, preferred |-> FALSE, message |-> Msg("soil_not_recommended", rule.crop_name, 0, soil_type)]

validate_rainfall(rainfall, rule) ==
  IF rule.optimal_rainfall_min <= rainfall /\ rainfall <= rule.optimal_rainfall_max
    THEN [passed |-> TRUE, optimal |-> TRUE, message |-> Msg("rain_optimal", rule.crop_name, rainfall, "")]
  ELSE IF rule.min_rainfall <= rainfall /\ rainfall <= rule.max_rainfall
    THEN [passed |-> TRUE, optimal |-> FALSE, message |-> Msg("rain_acceptable", rule.crop_name, rainfall, "")]
  ELSE IF rainfall < rule.min_rainfall
    THEN [passed |-> FALSE, optimal |-> FALSE, message |-> Msg("rain_too_low", rule.crop_name, rainfall, "")]
  ELSE [passed |-> FALSE, optimal |-> FALSE, message |-> Msg("rain_too_high", rule.crop_name, rainfall, "")]

validate_temperature(temperature, rule) ==
  IF rule.optimal_temp_min <= temperature /\ temperature <= rule.optimal_temp_max
    THEN [passed |-> TRUE, optimal |-> TRUE, message |-> Msg("temp_optimal", rule.crop_name, temperature, "")]
  ELSE IF rule.min_temperature <= temperature /\ temperature <= rule.max_temperature
    THEN [passed |-> TRUE, optimal |-> FALSE, message |-> Msg("temp_acceptable", rule.crop_name, temperature, "")]
  ELSE IF temperature < rule.min_temperature
    THEN [passed |-> FALSE, optimal |-> FALSE, message |-> Msg("temp_too_low", rule.crop_name, temperature, "")]
  ELSE [passed |-> FALSE, optimal |-> FALSE, message |-> Msg("temp_too_high", rule.crop_name, temperature, "")]

\* humidity in tenths; mid_humidity = (min + max) / 2 and
\* optimal_range = (max - min) * 0.3 are exact in tenths.
validate_humidity(humidity, rule) ==
  LET mid_humidity == 5 * (rule.min_humidity + rule.max_humidity)
      optimal_range == 3 * (rule.max_humidity - rule.min_humidity)
  IN
  IF (mid_humidity - optimal_range) <= humidity /\ humidity <= (mid_humidity + optimal_range)
    THEN [passed |-> TRUE, optimal |-> TRUE, message |-> Msg("hum_optimal", rule.crop_name, humidity, "")]
  ELSE IF 10 * rule.min_humidity <= humidity /\ humidity <= 10 * rule.max_humidity
    THEN [passed |-> TRUE, optimal |-> FALSE, message |-> Msg("hum_acceptable", rule.crop_name, humidity, "")]
  ELSE [passed |-> FALSE, optimal |-> FALSE, message |-> Msg("hum_outside", rule.crop_name, humidity, "")]

\* One nutrient of validate_nutrients: the message and whether it is a shortfall.
NutrientCheck(need, level, nutrient, crop_name) ==
  IF need = "High" /\ level # "High"
    THEN [adequate |-> FALSE, message |-> NutrientMsg("warn_needs_high", crop_name, nutrient, level)]
  ELSE IF need = "Low" /\ level = "High"
    THEN [adequate |-> TRUE, message |-> NutrientMsg("info_excess", crop_name, nutrient, "")]
  ELSE [adequate |-> TRUE, message |-> NutrientMsg("ok_suitable", crop_name, nutrient, level)]

validate_nutrients(n, p, k, rule) ==
  LET n_level == get_nutrient_level(n, "N")
      p_level == get_nutrient_level(p, "P")
      k_level == get_nutrient_level(k, "K")
      cn == NutrientCheck(rule.nitrogen_need, n_level, "Nitrogen", rule.crop_name)
      cp == NutrientCheck(rule.phosphorus_need, p_level, "Phosphorus", rule.crop_name)
      ck == NutrientCheck(rule.potassium_need, k_level, "Potassium", rule.crop_name)
  IN [all_adequate |-> cn.adequate /\ cp.adequate /\ ck.adequate,
      messages |-> <<cn.message, cp.message, ck.message>>]

(***************************************************************************)
(* RuleValidator.validate_crop.  m is the measurement                      *)
(* [nitrogen, phosphorus, potassium, temperature, humidity, ph, rainfall]. *)
(***************************************************************************)
RECURSIVE SumSeq(_)
SumSeq(s) == IF s = <<>> THEN 0 ELSE s[1] + SumSeq(Tail(s))

\* the mean taken over a fixed count of five components
ValidationScore_FiveComponents(score_components) ==
  IF score_components = <<>> THEN 0
  ELSE (2 * 1000 * SumSeq(score_components) + 10 * 5) \div (2 * 10 * 5)

\* round((sum(score_components) / len(score_components)) * 100, 1), in tenths,
\* for components given in tenths.  The quotient is a multiple of 1/3 of a
\* tenth, so no rounding tie occurs.
ValidationScore(score_components) ==
  IF score_components = <<>> THEN 0
  ELSE (2 * 1000 * SumSeq(score_components) + 10 * Len(score_components))
         \div (2 * 10 * Len(score_components))

\* the loop over nutrient_msgs stopping after the first warning
RECURSIVE NutrientWarnings_FirstOnly(_)
NutrientWarnings_FirstOnly(msgs) ==
  IF msgs = <<>> THEN <<>>
  ELSE IF msgs[1].kind = "warn_needs_high"
    THEN <<[msgs[1] EXCEPT !.kind = "needs_high"]>>
    ELSE NutrientWarnings_FirstOnly(Tail(msgs))

\* the messages of validate_nutrients containing the warning sign, with it removed
RECURSIVE NutrientWarnings(_)
NutrientWarnings(msgs) ==
  IF msgs = <<>> THEN <<>>
  ELSE (IF msgs[1].kind = "warn_needs_high"
          THEN <<[msgs[1] EXCEPT !.kind = "needs_high"]>>
          ELSE <<>>) \o NutrientWarnings(Tail(msgs))

\* validations: one entry per check
Validations(v_ph, v_soil, v_rain, v_temp, v_hum, v_nut) ==
  [ph |-> [passed |-> v_ph.passed, optimal |-> v_ph.optimal, message |-> v_ph.message],
   soil_type |-> [passed |-> v_soil.passed, preferred |-> v_soil.preferred, message |-> v_soil.message],
   rainfall |-> [passed |-> v_rain.passed, optimal |-> v_rain.optimal, message |-> v_rain.message],
   temperature |-> [passed |-> v_temp.passed, optimal |-> v_temp.optimal, message |-> v_temp.message],
   humidity |-> [passed |-> v_hum.passed, optimal |-> v_hum.optimal, message |-> v_hum.message],
   nutrients |-> [passed |-> v_nut.all_adequate, details |-> v_nut.messages]]

\* score_components with a failing rainfall check contributing 0.0
ScoreComponents_RainfallFailZero(v_ph, v_soil, v_rain, v_temp, v_hum, v_nut) ==
  << IF v_ph.optimal THEN 10 ELSE IF v_ph.passed THEN 7 ELSE 0,
     IF v_soil.preferred THEN 10 ELSE IF v_soil.passed THEN 7 ELSE 0,
     IF v_rain.optimal THEN 10 ELSE IF v_rain.passed THEN 7 ELSE 0,
     IF v_temp.optimal THEN 10 ELSE IF v_temp.passed THEN 7 ELSE 2,
     IF v_hum.optimal THEN 10 ELSE IF v_hum.passed THEN 8 ELSE 4,
     IF v_nut.all_adequate THEN 10 ELSE 6 >>

\* score_components with an optimal humidity check contributing 0.8
ScoreComponents_HumidityOptimalEight(v_ph, v_soil, v_rain, v_temp, v_hum, v_nut) ==
  << IF v_ph.optimal THEN 10 ELSE IF v_ph.passed THEN 7 ELSE 0,
     IF v_soil.preferred THEN 10 ELSE IF v_soil.passed THEN 7 ELSE 0,
     IF v_rain.optimal THEN 10 ELSE IF v_rain.passed THEN 7 ELSE 3,
     IF v_temp.optimal THEN 10 ELSE IF v_temp.passed THEN 7 ELSE 2,
     IF v_hum.passed THEN 8 ELSE 4,
     IF v_nut.all_adequate THEN 10 ELSE 6 >>

\* score_components, in tenths: 1.0, 0.7 / 0.8, and the per-check failure value
ScoreComponents(v_ph, v_soil, v_rain, v_temp, v_hum, v_nut) ==
  << IF v_ph.optimal THEN 10 ELSE IF v_ph.passed THEN 7 ELSE 0,
     IF v_soil.preferred THEN 10 ELSE IF v_soil.passed THEN 7 ELSE 0,
     IF v_rain.optimal THEN 10 ELSE IF v_rain.passed THEN 7 ELSE 3,
     IF v_temp.optimal THEN 10 ELSE IF v_temp.passed THEN 7 ELSE 2,
     IF v_hum.optimal THEN 10 ELSE IF v_hum.passed THEN 8 ELSE 4,
     IF v_nut.all_adequate THEN 10 ELSE 6 >>

\* warnings where the soil that is only acceptable adds a warning instead of
\* a suggestion
Warnings_AcceptableSoilWarns(crop_name, soil_type, m, rule, v_ph, v_soil, v_rain, v_temp, v_nut) ==
  (IF ~v_ph.optimal /\ ~v_ph.passed
     THEN <<Msg("ph_unsuitable", crop_name, m.ph, "")>> ELSE <<>>)
  \o (IF ~v_soil.preferred
     THEN <<Msg("soil_not_suitable", crop_name, 0, soil_type)>> ELSE <<>>)
  \o (IF ~v_rain.optimal /\ ~v_rain.passed
     THEN (IF m.rainfall < rule.min_rainfall
             THEN <<Msg("insufficient_rainfall", crop_name, 0, "")>>
             ELSE <<Msg("excessive_rainfall", crop_name, 0, "")>>)
     ELSE <<>>)
  \o (IF ~v_temp.optimal /\ ~v_temp.passed
     THEN <<Msg("temperature_stress", "", m.temperature, "")>> ELSE <<>>)
  \o (IF ~v_nut.all_adequate THEN NutrientWarnings(v_nut.messages) ELSE <<>>)

\* warnings, in the order the checks run
Warnings(crop_name, soil_type, m, rule, v_ph, v_soil, v_rain, v_temp, v_nut) ==
  (IF ~v_ph.optimal /\ ~v_ph.passed
     THEN <<Msg("ph_unsuitable", crop_name, m.ph, "")>> ELSE <<>>)
  \o (IF ~v_soil.preferred /\ ~v_soil.passed
     THEN <<Msg("soil_not_suitable", crop_name, 0, soil_type)>> ELSE <<>>)
  \o (IF ~v_rain.optimal /\ ~v_rain.passed
     THEN (IF m.rainfall < rule.min_rainfall
             THEN <<Msg("insufficient_rainfall", crop_name, 0, "")>>
             ELSE <<Msg("excessive_rainfall", crop_name, 0, "")>>)
     ELSE <<>>)
  \o (IF ~v_temp.optimal /\ ~v_temp.passed
     THEN <<Msg("temperature_stress", "", m.temperature, "")>> ELSE <<>>)
  \o (IF ~v_nut.all_adequate THEN NutrientWarnings(v_nut.messages) ELSE <<>>)

\* suggestions, in the order the checks run
Suggestions(rule, v_ph, v_soil, v_hum) ==
  (IF ~v_ph.optimal /\ v_ph.passed
     THEN <<Msg("adjust_ph", rule.crop_name, 0, "")>> ELSE <<>>)
  \o (IF ~v_soil.preferred /\ v_soil.passed
     THEN <<Msg("consider_preferred_soil", rule.crop_name, 0, "")>> ELSE <<>>)
  \o (IF ~v_hum.optimal /\ ~v_hum.passed
     THEN <<Msg("humidity_management", "", 0, "")>> ELSE <<>>)

\* all_passed over the entries that carry an "optimal" or "preferred" flag:
\* the nutrients entry is left out
AllPassed_FieldChecksOnly(validations) ==
  \A f \in DOMAIN validations \ {"nutrients"} : Get(validations[f], "passed", TRUE)

\* all(v.get("passed", True) for v in validations.values())
AllPassed(validations) ==
  \A f \in DOMAIN validations : Get(validations[f], "passed", TRUE)

\* the body of validate_crop once the six validators have answered
ValidationResult(crop_name, soil_type, m, rule, v_ph, v_soil, v_rain, v_temp, v_hum, v_nut) ==
  [has_rules |-> TRUE,
   crop |-> crop_name,
   validation_score |->
     Some(ValidationScore(ScoreComponents(v_ph, v_soil, v_rain, v_temp, v_hum, v_nut))),
   validations |-> Validations(v_ph, v_soil, v_rain, v_temp, v_hum, v_nut),
   warnings |-> Warnings(crop_name, soil_type, m, rule, v_ph, v_soil, v_rain, v_temp, v_nut),
   suggestions |-> Suggestions(rule, v_ph, v_soil, v_hum),
   all_passed |-> AllPassed(Validations(v_ph, v_soil, v_rain, v_temp, v_hum, v_nut))]

\* the body of validate_crop for a crop that has rules
ValidateWithRule(crop_name, soil_type, m, rule) ==
  ValidationResult(crop_name, soil_type, m, rule,
                   validate_ph(m.ph, rule),
                   validate_soil_type(soil_type, rule),
                   validate_rainfall(m.rainfall, rule),
                   validate_temperature(m.temperature, rule),
                   validate_humidity(m.humidity, rule),
                   validate_nutrients(m.nitrogen, m.phosphorus, m.potassium, rule))

validate_crop(crop_name, soil_type, m) ==
  IF ~InRules(Lower(crop_name))
    THEN [has_rules |-> FALSE,
          crop |-> crop_name,
          message |-> Msg("no_rules", crop_name, 0, ""),
          validation_score |-> None,
          validations |-> EmptyDict,
          warnings |-> <<>>,
          suggestions |-> <<>>]
    ELSE ValidateWithRule(crop_name, soil_type, m, RuleOf(Lower(crop_name)))

(***************************************************************************)
(* RuleValidator.get_suitable_crops.                                       *)
(***************************************************************************)
\* list.sort(key=validation_score, reverse=True): stable, so an entry goes
\* after every entry already placed whose score is not smaller.
\* an unstable descending sort: an entry goes before the entries of equal score
RECURSIVE InsertByScore_Unstable(_, _)
InsertByScore_Unstable(e, sorted) ==
  IF sorted = <<>> THEN <<e>>
  ELSE IF sorted[1].validation_score > e.validation_score
    THEN <<sorted[1]>> \o InsertByScore_Unstable(e, Tail(sorted))
    ELSE <<e>> \o sorted

RECURSIVE InsertByScore(_, _)
InsertByScore(e, sorted) ==
  IF sorted = <<>> THEN <<e>>
  ELSE IF sorted[1].validation_score >= e.validation_score
    THEN <<sorted[1]>> \o InsertByScore(e, Tail(sorted))
    ELSE <<e>> \o sorted

RECURSIVE SortByScoreDesc(_, _)
SortByScoreDesc(results, i) ==
  IF i = 0 THEN <<>>
  ELSE InsertByScore(results[i], SortByScoreDesc(results, i - 1))

\* results[:top_n] for top_n >= 0
Take(s, top_n) == SubSeq(s, 1, IF top_n < Len(s) THEN top_n ELSE Len(s))

\* the loop body without the soil check: every scored crop is appended
SuitableEntry_NoSoilFilter(crop_name, validation) ==
  IF validation.validation_score # None
    THEN << [crop |-> Capitalize(crop_name),
             validation_score |-> validation.validation_score[1],
             all_passed |-> validation.all_passed,
             warnings_count |-> Len(validation.warnings),
             soil_compatible |-> TRUE] >>
    ELSE <<>>

\* the loop body after validate_crop: what one crop appends to results
SuitableEntry(crop_name, validation) ==
  IF validation.validation_score # None
     /\ Get(Get(validation.validations, "soil_type", EmptyDict), "passed", FALSE)
    THEN << [crop |-> Capitalize(crop_name),
             validation_score |-> validation.validation_score[1],
             all_passed |-> validation.all_passed,
             warnings_count |-> Len(validation.warnings),
             soil_compatible |-> TRUE] >>
    ELSE <<>>

\* the loop over CROP_RULES.keys(), from the i-th key on
RECURSIVE SuitableFrom(_, _, _)
SuitableFrom(i, soil_type, m) ==
  IF i \notin RuleIndexSet THEN <<>>
  ELSE SuitableEntry(CROP_RULES[i].key, validate_crop(CROP_RULES[i].key, soil_type, m))
       \o SuitableFrom(i + 1, soil_type, m)

\* results.sort(key=lambda x: x["validation_score"], reverse=True)
SortedDesc(results) == SortByScoreDesc(results, Len(results))

get_suitable_crops(soil_type, m, top_n) ==
  Take(SortedDesc(SuitableFrom(1, soil_type, m)), top_n)

(***************************************************************************)
(* MLService.predict_soil_type and MLService.predict_crop.  The trained    *)
(* models are opaque artifacts: what they answer is an input.              *)
(*   soil_model: None, or Some([prediction, has_proba, confidence])        *)
(*   crop_model: None, or Some([prediction, has_proba, ranked]) with       *)
(*     ranked the classes in argsort(probabilities)[::-1] order, each with *)
(*     round(probability * 100, 2) in hundredths.                          *)
(***************************************************************************)
TopAlternatives == 3

\* NaN, the category pd.cut gives a value that lies in no bin
NaN == <<>>

\* pd.cut(value, bins, labels=[0, 1, ...]): the label of the bin
\* (bins[i], bins[i+1]] that holds the value, NaN when none does
cut(value, bins) ==
  IF \E i \in 1..(Len(bins) - 1) : bins[i] < value /\ value <= bins[i + 1]
    THEN Some((CHOOSE i \in 1..(Len(bins) - 1) : bins[i] < value /\ value <= bins[i + 1]) - 1)
    ELSE NaN

\* .astype(int) of the category columns: ValueError when one of them is NaN
astype_int(categories) ==
  IF \E c \in DOMAIN categories : categories[c] = NaN
    THEN [raised |-> TRUE, error |-> "ValueError", categories |-> categories]
    ELSE [raised |-> FALSE, error |-> "", categories |-> categories]

\* bins of _create_enhanced_features (pH in tenths)
CropRainfallBins == <<0, 50, 100, 150, 200, 300, 3000>>

CropPhBins == <<0, 55, 65, 75, 140>>

\* bins of _create_enhanced_soil_features (pH and humidity in tenths)
SoilPhBins == <<0, 50, 55, 65, 70, 75, 140>>

SoilHumidityBins == <<0, 600, 700, 800, 900, 1000>>

SoilRainfallBins == <<0, 100, 150, 200, 250, 500>>

SoilTempBins == <<0, 20, 25, 30, 35, 50>>

\* the category columns of _create_enhanced_features
create_enhanced_features(m) ==
  astype_int([rainfall_category |-> cut(m.rainfall, CropRainfallBins),
              ph_category |-> cut(m.ph, CropPhBins)])

\* the category columns of _create_enhanced_soil_features
create_enhanced_soil_features(m) ==
  astype_int([ph_category |-> cut(m.ph, SoilPhBins),
              humidity_category |-> cut(m.humidity, SoilHumidityBins),
              rainfall_category |-> cut(m.rainfall, SoilRainfallBins),
              temp_category |-> cut(m.temperature, SoilTempBins)])

\* the input preparation at the head of predict_soil_type and predict_crop:
\* the enhanced features if the enhanced model is loaded, else the seven raw
\* columns
prepare_input(which, is_enhanced, m) ==
  IF ~is_enhanced THEN [raised |-> FALSE, error |-> "", categories |-> EmptyDict]
  ELSE IF which = "soil" THEN create_enhanced_soil_features(m)
  ELSE create_enhanced_features(m)

predict_soil_type(soil_model) ==
  IF soil_model = None THEN None
  ELSE LET sm == soil_model[1] IN
    Some([predicted_type |-> sm.prediction,
          confidence |-> IF sm.has_proba THEN sm.confidence ELSE 0])

\* predict_crop whose alternatives are the classes ranked after the best one
predict_crop_OthersOnly(crop_model) ==
  IF crop_model = None THEN None
  ELSE LET cm == crop_model[1]
           top == Take(cm.ranked, TopAlternatives + 1)
       IN
    IF cm.has_proba
      THEN Some([recommended_crop |-> top[1].crop,
                 confidence |-> top[1].confidence,
                 alternatives |-> Tail(top)])
      ELSE Some([recommended_crop |-> cm.prediction,
                 confidence |-> 0,
                 alternatives |-> <<>>])

predict_crop(crop_model) ==
  IF crop_model = None THEN None
  ELSE LET cm == crop_model[1]
           top == Take(cm.ranked, TopAlternatives)
       IN
    IF cm.has_proba
      THEN Some([recommended_crop |-> top[1].crop,
                 confidence |-> top[1].confidence,
                 alternatives |-> top])
      ELSE Some([recommended_crop |-> cm.prediction,
                 confidence |-> 0,
                 alternatives |-> <<>>])

(***************************************************************************)
(* MLService.hybrid_analyze.                                               *)
(***************************************************************************)
Max(a, b) == IF a >= b THEN a ELSE b

\* round(x, 1) of a value in thousandths, in tenths: the values it can return.
\* Exactly half way between two tenths the float that stands for x lies on
\* one side or the other (round(11.35, 1) = 11.3, round(0.25, 1) = 0.2), so
\* both neighbours are possible there.
RoundTenths(x) ==
  LET q == x \div 100
      r == x % 100
  IN IF r > 50 THEN {q + 1} ELSE IF r < 50 THEN {q} ELSE {q, q + 1}

\* soil_check = validation.get("validations", {}).get("soil_type", {})
SoilCheck(validation) ==
  Get(Get(validation, "validations", EmptyDict), "soil_type", EmptyDict)

\* soil_passed = soil_check.get("passed", True) if soil_check else True
SoilPassed(soil_check) ==
  IF DOMAIN soil_check # {} THEN Get(soil_check, "passed", TRUE) ELSE TRUE

\* the candidate test that takes a crop without rules for a failure
CandidateAccepted_RulesRequired(validation) ==
  Get(validation, "has_rules", FALSE) /\ SoilPassed(SoilCheck(validation))

\* the candidate test without the soil check: every candidate is accepted
CandidateAccepted_Always(validation) == TRUE

\* if not has_rules or soil_passed
CandidateAccepted(validation) ==
  ~Get(validation, "has_rules", FALSE) \/ SoilPassed(SoilCheck(validation))

\* the reason taken from the end of the warnings instead of the front
FailReason_LastWarning(fail_reason) ==
  IF fail_reason # <<>> THEN fail_reason[Len(fail_reason)]
  ELSE Msg("soil_type_mismatch", "", 0, "")

\* fail_reason[0] if fail_reason else "Soil type mismatch"
FailReason(fail_reason) ==
  IF fail_reason # <<>> THEN fail_reason[1] ELSE Msg("soil_type_mismatch", "", 0, "")

\* what a rejected candidate appends to crops_that_failed
FailedEntry(candidate, validation) ==
  [crop |-> candidate.crop, confidence |-> candidate.confidence,
   reason |-> FailReason(Get(validation, "warnings", <<>>))]

RECURSIVE WalkCandidates(_, _, _, _, _)

\* the loop body without the break: the last accepted candidate wins
WalkStep_NoBreak(all_ml_crops, i, predicted_soil, m, crops_that_failed, validation) ==
  LET rest == WalkCandidates(all_ml_crops, i + 1, predicted_soil, m,
                IF CandidateAccepted(validation) THEN crops_that_failed
                ELSE Append(crops_that_failed, FailedEntry(all_ml_crops[i], validation)))
  IN IF CandidateAccepted(validation) /\ ~rest.found
       THEN [found |-> TRUE, crop |-> all_ml_crops[i].crop,
             confidence |-> 10 * all_ml_crops[i].confidence,
             validation |-> validation, crops_that_failed |-> rest.crops_that_failed]
       ELSE rest

\* the loop body for the i-th candidate, after validate_crop: accept and
\* break, or record the failure and go on
WalkStep(all_ml_crops, i, predicted_soil, m, crops_that_failed, validation) ==
  IF CandidateAccepted(validation)
    THEN [found |-> TRUE, crop |-> all_ml_crops[i].crop,
          confidence |-> 10 * all_ml_crops[i].confidence,
          validation |-> validation, crops_that_failed |-> crops_that_failed]
    ELSE WalkCandidates(all_ml_crops, i + 1, predicted_soil, m,
           Append(crops_that_failed, FailedEntry(all_ml_crops[i], validation)))

\* the for loop over all_ml_crops, from the i-th candidate on
WalkCandidates(all_ml_crops, i, predicted_soil, m, crops_that_failed) ==
  IF i > Len(all_ml_crops)
    THEN [found |-> FALSE, crop |-> "", confidence |-> 0,
          validation |-> EmptyDict, crops_that_failed |-> crops_that_failed]
    ELSE WalkStep(all_ml_crops, i, predicted_soil, m, crops_that_failed,
                  validate_crop(all_ml_crops[i].crop, predicted_soil, m))

\* final_crop_confidence of a rule-based pick: validation_score * 0.7,
\* thousandths from tenths
RuleConfidence_Unscaled(validation_score) == 100 * validation_score

RuleConfidence(validation_score) == 70 * validation_score

\* the else branch "absolute fallback", which keeps final_crop_confidence = 0
AbsoluteFallback_NoConfidence(ml_recommended_crop, ml_crop_confidence, predicted_soil, m, crops_that_failed) ==
  [branch |-> "fallback", final_recommended_crop |-> ml_recommended_crop,
   final_crop_confidence |-> 0,
   final_rule_validation |-> validate_crop(ml_recommended_crop, predicted_soil, m),
   crops_that_failed |-> crops_that_failed]

\* the else branch "absolute fallback": the raw ML crop, validated
AbsoluteFallback(ml_recommended_crop, ml_crop_confidence, predicted_soil, m, crops_that_failed) ==
  [branch |-> "fallback", final_recommended_crop |-> ml_recommended_crop,
   final_crop_confidence |-> 10 * ml_crop_confidence,
   final_rule_validation |-> validate_crop(ml_recommended_crop, predicted_soil, m),
   crops_that_failed |-> crops_that_failed]

\* the defaults taken from the two predictions
PredictedSoil(soil_result) ==
  IF soil_result # None THEN soil_result[1].predicted_type ELSE "Unknown"

SoilConfidence(soil_result) ==
  IF soil_result # None THEN soil_result[1].confidence ELSE 0

\* ml_recommended_crop without the "Unknown" default
MlRecommendedCrop_NoDefault(crop_result) ==
  IF crop_result # None THEN crop_result[1].recommended_crop ELSE ""

MlRecommendedCrop(crop_result) ==
  IF crop_result # None THEN crop_result[1].recommended_crop ELSE "Unknown"

\* ml_crop_confidence defaulting to 100 instead of 0
MlCropConfidence_DefaultFull(crop_result) ==
  IF crop_result # None THEN crop_result[1].confidence ELSE 10000

MlCropConfidence(crop_result) ==
  IF crop_result # None THEN crop_result[1].confidence ELSE 0

MlAlternatives(crop_result) ==
  IF crop_result # None THEN crop_result[1].alternatives ELSE <<>>

\* all_ml_crops: the top crop, then the alternatives
AllMlCrops(crop_result) ==
  <<[crop |-> MlRecommendedCrop(crop_result), confidence |-> MlCropConfidence(crop_result)]>>
  \o MlAlternatives(crop_result)

\* Steps 2-3 without the rule-based fallback: when no candidate is accepted
\* the raw ML crop is kept
SelectCrop_NoRuleFallback(m, soil_result, crop_result, walk, rule_based_crops) ==
  IF walk.found
    THEN [branch |-> "ml", final_recommended_crop |-> walk.crop,
          final_crop_confidence |-> walk.confidence,
          final_rule_validation |-> walk.validation,
          crops_that_failed |-> walk.crops_that_failed]
  ELSE AbsoluteFallback(MlRecommendedCrop(crop_result), MlCropConfidence(crop_result),
                        PredictedSoil(soil_result), m, walk.crops_that_failed)

\* Steps 2-3 after the loop: the final crop, its confidence (thousandths) and
\* its validation, given the outcome of the loop (walk) and the ranker's list
SelectCrop(m, soil_result, crop_result, walk, rule_based_crops) ==
  IF walk.found
    THEN [branch |-> "ml", final_recommended_crop |-> walk.crop,
          final_crop_confidence |-> walk.confidence,
          final_rule_validation |-> walk.validation,
          crops_that_failed |-> walk.crops_that_failed]
  ELSE IF rule_based_crops # <<>>
    THEN [branch |-> "rule", final_recommended_crop |-> rule_based_crops[1].crop,
          final_crop_confidence |-> RuleConfidence(rule_based_crops[1].validation_score),
          final_rule_validation |->
            validate_crop(rule_based_crops[1].crop, PredictedSoil(soil_result), m),
          crops_that_failed |-> walk.crops_that_failed]
  ELSE AbsoluteFallback(MlRecommendedCrop(crop_result), MlCropConfidence(crop_result),
                        PredictedSoil(soil_result), m, walk.crops_that_failed)

\* Steps 1-3
SelectFinalCrop(m, soil_result, crop_result) ==
  SelectCrop(m, soil_result, crop_result,
             WalkCandidates(AllMlCrops(crop_result), 1, PredictedSoil(soil_result), m, <<>>),
             get_suitable_crops(PredictedSoil(soil_result), m, 5))

\* Step 5: (final_crop_confidence * 0.6) + (validation_score * 0.4), thousandths
BaseScore(final_crop_confidence, validation_score) ==
  (6 * final_crop_confidence) \div 10 + 40 * validation_score

\* the penalty without the floor at 0
FinalScore_NoFloor(base_score, warning_count) == base_score - 5000 * warning_count

\* max(0, base_score - len(warnings) * 5), thousandths
FinalScore(base_score, warning_count) == Max(0, base_score - 5000 * warning_count)

\* Step 6 without the final else: below 30 no band is assigned and the name
\* recommendation_quality is unbound
QualityBand_NoElse(final_score, all_checks_passed, warning_count, validation_score, final_crop_confidence) ==
  IF final_score >= 80000 /\ all_checks_passed THEN "Excellent"
  ELSE IF final_score >= 70000 /\ warning_count <= 1 THEN "Good"
  ELSE IF final_score >= 50000 \/ (validation_score >= 800 /\ final_crop_confidence >= 40000) THEN "Moderate"
  ELSE IF final_score >= 30000 THEN "Fair"
  ELSE "UnboundLocalError"

\* Step 6 with "Excellent" given on the score alone
QualityBand_ScoreOnly(final_score, all_checks_passed, warning_count, validation_score, final_crop_confidence) ==
  IF final_score >= 80000 THEN "Excellent"
  ELSE IF final_score >= 70000 /\ warning_count <= 1 THEN "Good"
  ELSE IF final_score >= 50000 \/ (validation_score >= 800 /\ final_crop_confidence >= 40000) THEN "Moderate"
  ELSE IF final_score >= 30000 THEN "Fair"
  ELSE "Poor"

\* Step 6: the if/elif chain
QualityBand(final_score, all_checks_passed, warning_count, validation_score, final_crop_confidence) ==
  IF final_score >= 80000 /\ all_checks_passed THEN "Excellent"
  ELSE IF final_score >= 70000 /\ warning_count <= 1 THEN "Good"
  ELSE IF final_score >= 50000 \/ (validation_score >= 800 /\ final_crop_confidence >= 40000) THEN "Moderate"
  ELSE IF final_score >= 30000 THEN "Fair"
  ELSE "Poor"

\* the downgrades with "Needs Review" only above three warnings
QualityOverride_AboveThree(recommendation_quality, warning_count) ==
  LET q == IF warning_count >= 2 /\ recommendation_quality \in {"Excellent", "Good"}
             THEN "Moderate" ELSE recommendation_quality
  IN IF warning_count > 3 THEN "Needs Review" ELSE q

\* "Downgrade quality if there are significant warnings"
QualityOverride(recommendation_quality, warning_count) ==
  LET q == IF warning_count >= 2 /\ recommendation_quality \in {"Excellent", "Good"}
             THEN "Moderate" ELSE recommendation_quality
  IN IF warning_count >= 3 THEN "Needs Review" ELSE q

RecommendationQuality(final_score, all_checks_passed, warning_count, validation_score, final_crop_confidence) ==
  QualityOverride(
    QualityBand(final_score, all_checks_passed, warning_count, validation_score, final_crop_confidence),
    warning_count)

\* the displayed alternatives without the test against the final crop
FilteredAlternatives_KeepFinal(crops, final_recommended_crop) ==
  [i \in 1..Len(crops) |-> [crop |-> crops[i].crop, confidence |-> crops[i].validation_score]]

\* the loop building filtered_alternatives from rule_based_crops[:3]
RECURSIVE FilteredAlternatives(_, _)
FilteredAlternatives(crops, final_recommended_crop) ==
  IF crops = <<>> THEN <<>>
  ELSE (IF Lower(crops[1].crop) # Lower(final_recommended_crop)
          THEN <<[crop |-> crops[1].crop, confidence |-> crops[1].validation_score]>>
          ELSE <<>>) \o FilteredAlternatives(Tail(crops), final_recommended_crop)

\* the names of all the crops that failed, not of the first two
FailedNames_All(crops_that_failed) ==
  [i \in 1..Len(crops_that_failed) |-> crops_that_failed[i].crop]

\* [c["crop"] for c in crops_that_failed[:2]]
FailedNames(crops_that_failed) ==
  LET firstTwo == Take(crops_that_failed, 2)
  IN [i \in 1..Len(firstTwo) |-> firstTwo[i].crop]

\* Steps 5-6 and the return: the returned dictionary without its final_score
\* (ret) and the local variables at the return (locals), given the outcome of
\* Steps 1-3 (sel) and of Step 4 (rule_based_crops)
HybridResult(m, soil_result, crop_result, sel, rule_based_crops) ==
  LET predicted_soil == PredictedSoil(soil_result)
      soil_confidence == SoilConfidence(soil_result)
      ml_recommended_crop == MlRecommendedCrop(crop_result)
      final_recommended_crop == sel.final_recommended_crop
      final_crop_confidence == sel.final_crop_confidence
      final_rule_validation == sel.final_rule_validation
      crops_that_failed == sel.crops_that_failed
      vs == Get(final_rule_validation, "validation_score", None)
      validation_score == IF vs = None THEN 0 ELSE vs[1]
      warnings == Get(final_rule_validation, "warnings", <<>>)
      all_checks_passed == Get(final_rule_validation, "all_passed", FALSE)
      base_score == BaseScore(final_crop_confidence, validation_score)
      final_score == FinalScore(base_score, Len(warnings))
      recommendation_quality ==
        RecommendationQuality(final_score, all_checks_passed, Len(warnings),
                              validation_score, final_crop_confidence)
      replaced == Lower(final_recommended_crop) # Lower(ml_recommended_crop)
      suggestions ==
        (IF replaced
           THEN <<[kind |-> "selected_over", crop |-> Capitalize(final_recommended_crop),
                   num |-> 0, txt |-> ml_recommended_crop, level |-> ""]>>
           ELSE <<>>)
        \o Get(final_rule_validation, "suggestions", <<>>)
        \o (IF crops_that_failed # <<>>
              THEN <<[kind |-> "crops_skipped", crop |-> "", num |-> 0,
                      txt |-> "", level |-> "", names |-> FailedNames(crops_that_failed)]>>
              ELSE <<>>)
        \o (IF soil_confidence < 7000
              THEN <<Msg("soil_confidence_low", "", 0, "")>>
              ELSE <<>>)
  IN [ret |->
        [soil_analysis |-> [predicted_type |-> predicted_soil, confidence |-> soil_confidence],
         crop_recommendation |->
           [recommended_crop |-> final_recommended_crop,
            ml_confidence |-> final_crop_confidence,
            alternatives |-> FilteredAlternatives(Take(rule_based_crops, 3), final_recommended_crop),
            original_ml_prediction |-> IF replaced THEN Some(ml_recommended_crop) ELSE None],
         rule_validation |->
           [has_rules |-> Get(final_rule_validation, "has_rules", FALSE),
            validation_score |-> validation_score,
            all_checks_passed |-> all_checks_passed,
            validations |-> Get(final_rule_validation, "validations", EmptyDict)],
         recommendation_quality |-> recommendation_quality,
         warnings |-> warnings,
         suggestions |-> suggestions,
         alternative_crops |-> rule_based_crops,
         crops_filtered_out |-> crops_that_failed,
         input_summary |-> m],
      locals |->
        [branch |-> sel.branch,
         ml_recommended_crop |-> ml_recommended_crop,
         final_rule_validation |-> final_rule_validation,
         base_score |-> base_score,
         final_score |-> final_score]]

\* Steps 1-4 on the two predictions, then the rest
HybridSteps(m, soil_result, crop_result) ==
  HybridResult(m, soil_result, crop_result,
               SelectFinalCrop(m, soil_result, crop_result),
               get_suitable_crops(PredictedSoil(soil_result), m, 5))

hybrid_analyze(m, soil_model, crop_model) ==
  HybridSteps(m, predict_soil_type(soil_model), predict_crop(crop_model))

(***************************************************************************)
(* Inputs.                                                                 *)
(***************************************************************************)
MaxClasses == 3

MaxTopN == 5

\* every soil label of CROP_RULES, the soil classifier's extra class "Peaty",
\* and the default "Unknown"
SoilLabels ==
  {"Clayey", "Loamy", "Sandy", "Silty", "Black Cotton", "Riverine Alluvial",
   "Coastal Alluvial", "Forest Loam", "Red Loam", "Laterite",
   "Brown Hydromorphic", "Peaty", "Unknown"}

CropNames == CropKeys \cup {"Rice", "RICE", "Unknown", "Sugarcane"}

\* measurements inside the ranges of PredictionInput
Measurements(Ns, Ps, Ks, Ts, Hs, PHs, Rs) ==
  [nitrogen : Ns, phosphorus : Ps, potassium : Ks, temperature : Ts,
   humidity : Hs, ph : PHs, rainfall : Rs]

ValidateMeasurements ==
  Measurements({30, 100}, {50, 70}, {50, 80}, {9, 27, 45}, {200, 850},
               {40, 52, 60}, {30, 220})

RankerMeasurements ==
  Measurements({30, 100}, {50}, {50, 80}, {27}, {850},
               {40, 60}, {30, 90, 220})

HybridMeasurements ==
  Measurements({30, 100}, {50}, {50}, {27}, {850}, {40, 60}, {30, 220})
  \cup Measurements({30}, {50}, {50}, {27}, {600}, {60}, {30})
  \cup Measurements({100}, {50}, {50}, {27}, {850}, {52}, {220})

\* measurements at the ends of the input boundary (temperature 8..55,
\* humidity 14..100, pH 3.5..10.0, rainfall 20..3000) and at bin edges
FeatureMeasurements ==
  Measurements({90}, {42}, {43}, {8, 20, 21, 50, 51, 55}, {140, 600, 601, 1000},
               {35, 50, 51, 75, 76, 100}, {20, 50, 51, 500, 501, 3000})

SoilModels ==
  {None}
  \cup {Some([prediction |-> "Clayey", has_proba |-> FALSE, confidence |-> 0])}
  \cup {Some([prediction |-> s, has_proba |-> TRUE, confidence |-> 9000]) :
          s \in {"Clayey", "Sandy"}}
  \cup {Some([prediction |-> s, has_proba |-> TRUE, confidence |-> 6500]) :
          s \in {"Laterite", "Peaty"}}

ClassLabels == {"rice", "cotton", "coconut", "Sugarcane"}

\* probabilities of the ranked classes, in descending order
Profiles ==
  { <<6660, 2000, 1000, 340>>, <<8720, 900, 300, 80>> }

\* sequences of distinct class labels of length n
RECURSIVE Rankings(_)
Rankings(n) ==
  IF n = 0 THEN {<<>>}
  ELSE {Append(r, l) : r \in Rankings(n - 1), l \in ClassLabels} 

DistinctRankings(n) ==
  {r \in Rankings(n) : \A i, j \in 1..n : i # j => r[i] # r[j]}

\* rankings that start with wheat, which few soils suit, then maize
ScenarioRankings ==
  { <<"wheat", "maize">>, <<"wheat", "maize", "rice">>, <<"wheat", "maize", "Sugarcane">> }

\* classifiers with predict_proba that rank the classes as in rs
ProbaModels(rs) ==
  {Some([prediction |-> r[1], has_proba |-> TRUE,
         ranked |-> [i \in 1..Len(r) |-> [crop |-> r[i], confidence |-> pr[i]]]]) :
     r \in rs, pr \in Profiles}

CropModels ==
  {None}
  \cup {Some([prediction |-> l, has_proba |-> FALSE, ranked |-> <<>>]) : l \in ClassLabels}
  \cup UNION { ProbaModels(DistinctRankings(n)) :
               n \in 1..(IF MaxClasses <= Cardinality(ClassLabels) THEN MaxClasses ELSE Cardinality(ClassLabels)) }
  \cup ProbaModels(ScenarioRankings)

(***************************************************************************)
(* State machine.  A call arrives with its arguments (and, for             *)
(* hybrid_analyze, with what the two loaded models will answer); the       *)
(* called function runs as one step and leaves its return value in         *)
(* response; the caller takes the response.  rule_table is the             *)
(* module-level dictionary CROP_RULES as the calls leave it; the functions *)
(* are written against its value at construction.                          *)
(***************************************************************************)
VARIABLES pc, request, response, locals, rule_table

vars == <<pc, request, response, locals, rule_table>>

NoRequest == [op |-> "none"]

Init ==
  /\ pc = "idle"
  /\ request = NoRequest
  /\ response = <<>>
  /\ locals = <<>>
  /\ rule_table = CROP_RULES

\* What validate_soil_type does to the rule it is given.  It tests
\* membership in the two soil lists and joins them into the message; the
\* list of all suitable soils is rule.preferred_soils + rule.acceptable_soils,
\* a new list.  The rule is as before.
\* This variant builds that list in place, by extending preferred_soils:
SoilCheckEffect_ExtendInPlace(rule, soil_type) ==
  IF ~InList(soil_type, rule.preferred_soils) /\ ~InList(soil_type, rule.acceptable_soils)
    THEN [rule EXCEPT !.preferred_soils = rule.preferred_soils \o rule.acceptable_soils]
    ELSE rule

SoilCheckEffect(rule, soil_type) == rule

\* the table after validate_crop: only CROP_RULES[crop_key] is consulted,
\* and only if the key is present
TableAfterValidate(table, crop_name, soil_type) ==
  [i \in DOMAIN table |->
     IF table[i].key = Lower(crop_name) THEN SoilCheckEffect(table[i], soil_type)
     ELSE table[i]]

\* the table after get_suitable_crops, which validates every key in turn.
\* hybrid_analyze validates candidates for the predicted soil and then, on
\* every path, runs get_suitable_crops for that soil at step 4.
TableAfterRanker(table, soil_type) ==
  [i \in DOMAIN table |-> SoilCheckEffect(table[i], soil_type)]

CallValidateCrop ==
  /\ pc = "idle"
  /\ \E crop_name \in CropNames, soil_type \in {"Clayey", "Sandy", "Peaty"},
        m \in ValidateMeasurements :
       request' = [op |-> "validate_crop", crop_name |-> crop_name,
                   soil_type |-> soil_type, m |-> m]
  /\ pc' = "called"
  /\ UNCHANGED <<response, locals, rule_table>>

CallGetSuitableCrops ==
  /\ pc = "idle"
  /\ \E soil_type \in SoilLabels, m \in RankerMeasurements, top_n \in 0..MaxTopN :
       request' = [op |-> "get_suitable_crops", soil_type |-> soil_type,
                   m |-> m, top_n |-> top_n]
  /\ pc' = "called"
  /\ UNCHANGED <<response, locals, rule_table>>

CallHybridAnalyze ==
  /\ pc = "idle"
  /\ \E m \in HybridMeasurements, soil_model \in SoilModels, crop_model \in CropModels :
       request' = [op |-> "hybrid_analyze", m |-> m,
                   soil_model |-> soil_model, crop_model |-> crop_model]
  /\ pc' = "called"
  /\ UNCHANGED <<response, locals, rule_table>>

\* values on both sides of the nutrient thresholds 40/80, 30/60 and 40/70
NitrogenLevels == {39, 40, 80, 81}

PhosphorusLevels == {29, 30, 60, 61}

PotassiumLevels == {39, 40, 70, 71}

CallValidateNutrients ==
  /\ pc = "idle"
  /\ \E n \in NitrogenLevels, p \in PhosphorusLevels, k \in PotassiumLevels,
        crop_key \in CropKeys :
       request' = [op |-> "validate_nutrients", n |-> n, p |-> p, k |-> k,
                   crop_key |-> crop_key]
  /\ pc' = "called"
  /\ UNCHANGED <<response, locals, rule_table>>

\* the four interval checks
Fields == {"ph", "rainfall", "temperature", "humidity"}

\* the interval ends a rule gives for a field, in the field's unit (pH and
\* humidity in tenths)
FieldEnds(field, rule) ==
  IF field = "ph"
    THEN {rule.ph_min, rule.ph_optimal_min, rule.ph_optimal_max, rule.ph_max}
  ELSE IF field = "rainfall"
    THEN {rule.min_rainfall, rule.optimal_rainfall_min, rule.optimal_rainfall_max, rule.max_rainfall}
  ELSE IF field = "temperature"
    THEN {rule.min_temperature, rule.optimal_temp_min, rule.optimal_temp_max, rule.max_temperature}
  ELSE {10 * rule.min_humidity, 10 * rule.max_humidity,
        5 * (rule.min_humidity + rule.max_humidity) - 3 * (rule.max_humidity - rule.min_humidity),
        5 * (rule.min_humidity + rule.max_humidity) + 3 * (rule.max_humidity - rule.min_humidity)}

\* values at and next to every interval end of a rule
FieldValues(field, rule) == UNION {{e - 1, e, e + 1} : e \in FieldEnds(field, rule)}

\* a direct call of one of validate_ph, validate_rainfall,
\* validate_temperature, validate_humidity
CallValidateField ==
  /\ pc = "idle"
  /\ \E field \in Fields, crop_key \in CropKeys, other \in CropKeys :
       \E value \in FieldValues(field, RuleOf(crop_key)) \cup FieldValues(field, RuleOf(other)) :
         request' = [op |-> "validate_field", field |-> field, value |-> value,
                     crop_key |-> crop_key]
  /\ pc' = "called"
  /\ UNCHANGED <<response, locals, rule_table>>

ValidateField ==
  /\ pc = "called"
  /\ request.op = "validate_field"
  /\ response' = IF request.field = "ph"
                   THEN validate_ph(request.value, RuleOf(request.crop_key))
                 ELSE IF request.field = "rainfall"
                   THEN validate_rainfall(request.value, RuleOf(request.crop_key))
                 ELSE IF request.field = "temperature"
                   THEN validate_temperature(request.value, RuleOf(request.crop_key))
                 ELSE validate_humidity(request.value, RuleOf(request.crop_key))
  /\ pc' = "done"
  /\ UNCHANGED <<request, locals, rule_table>>

\* a prediction is asked for: the classifier, whether its enhanced model is
\* the one loaded, and the measurement
CallPrepareInput ==
  /\ pc = "idle"
  /\ \E which \in {"soil", "crop"}, is_enhanced \in BOOLEAN, m \in FeatureMeasurements :
       request' = [op |-> "prepare_input", which |-> which,
                   is_enhanced |-> is_enhanced, m |-> m]
  /\ pc' = "called"
  /\ UNCHANGED <<response, locals, rule_table>>

PrepareInput ==
  /\ pc = "called"
  /\ request.op = "prepare_input"
  /\ response' = prepare_input(request.which, request.is_enhanced, request.m)
  /\ pc' = "done"
  /\ UNCHANGED <<request, locals, rule_table>>

ValidateNutrients ==
  /\ pc = "called"
  /\ request.op = "validate_nutrients"
  /\ response' = validate_nutrients(request.n, request.p, request.k, RuleOf(request.crop_key))
  /\ pc' = "done"
  /\ UNCHANGED <<request, locals, rule_table>>

ValidateCrop ==
  /\ pc = "called"
  /\ request.op = "validate_crop"
  /\ response' = validate_crop(request.crop_name, request.soil_type, request.m)
  /\ rule_table' = TableAfterValidate(rule_table, request.crop_name, request.soil_type)
  /\ pc' = "done"
  /\ UNCHANGED <<request, locals>>

GetSuitableCrops ==
  /\ pc = "called"
  /\ request.op = "get_suitable_crops"
  /\ response' = get_suitable_crops(request.soil_type, request.m, request.top_n)
  /\ rule_table' = TableAfterRanker(rule_table, request.soil_type)
  /\ pc' = "done"
  /\ UNCHANGED <<request, locals>>

HybridAnalyze ==
  /\ pc = "called"
  /\ request.op = "hybrid_analyze"
  /\ \E r \in {hybrid_analyze(request.m, request.soil_model, request.crop_model)} :
       /\ \E final_score \in RoundTenths(r.locals.final_score) :
            response' = [k \in DOMAIN r.ret \cup {"final_score"} |->
                           IF k = "final_score" THEN final_score ELSE r.ret[k]]
       /\ locals' = r.locals
       /\ rule_table' = TableAfterRanker(rule_table, r.ret.soil_analysis.predicted_type)
  /\ pc' = "done"
  /\ UNCHANGED request

Return ==
  /\ pc = "done"
  /\ pc' = "idle"
  /\ request' = NoRequest
  /\ response' = <<>>
  /\ locals' = <<>>
  /\ UNCHANGED rule_table

Next ==
  \/ CallValidateCrop
  \/ CallGetSuitableCrops
  \/ CallHybridAnalyze
  \/ CallValidateNutrients
  \/ CallValidateField
  \/ CallPrepareInput
  \/ PrepareInput
  \/ ValidateNutrients
  \/ ValidateField
  \/ ValidateCrop
  \/ GetSuitableCrops
  \/ HybridAnalyze
  \/ Return

Spec == Init /\ [][Next]_vars

\* the calls of one function only
NextValidate == CallValidateCrop \/ ValidateCrop \/ Return

SpecValidate == Init /\ [][NextValidate]_vars

NextNutrients == CallValidateNutrients \/ ValidateNutrients \/ Return

SpecNutrients == Init /\ [][NextNutrients]_vars

NextFields == CallValidateField \/ ValidateField \/ Return

SpecFields == Init /\ [][NextFields]_vars

NextFeatures == CallPrepareInput \/ PrepareInput \/ Return

SpecFeatures == Init /\ [][NextFeatures]_vars

NextRanker == CallGetSuitableCrops \/ GetSuitableCrops \/ Return

SpecRanker == Init /\ [][NextRanker]_vars

NextHybrid == CallHybridAnalyze \/ HybridAnalyze \/ Return

SpecHybrid == Init /\ [][NextHybrid]_vars

(***************************************************************************)
(* Vocabulary of the properties: what a finished call was given, stated    *)
(* from the rule table and the request, not from the functions checked.    *)
(***************************************************************************)
MaxWarnings == 7

HybridDone == pc = "done" /\ request.op = "hybrid_analyze"

RankerDone == pc = "done" /\ request.op = "get_suitable_crops"

ValidateDone == pc = "done" /\ request.op = "validate_crop"

\* the soil label hybrid_analyze validates against
ReqSoil == IF request.soil_model = None THEN "Unknown" ELSE request.soil_model[1].prediction

\* the classifier's crop answer as hybrid_analyze reads it
ReqCropResult == predict_crop(request.crop_model)

ReqMlCrop == IF ReqCropResult = None THEN "Unknown" ELSE ReqCropResult[1].recommended_crop

ReqMlConfidence == IF ReqCropResult = None THEN 0 ELSE ReqCropResult[1].confidence

\* the ML recommended crop followed by the ML alternatives
ReqCandidates ==
  <<[crop |-> ReqMlCrop, confidence |-> ReqMlConfidence]>>
  \o (IF ReqCropResult = None THEN <<>> ELSE ReqCropResult[1].alternatives)

\* the rule of crop_name lists soil among its preferred or acceptable soils
SoilListed(crop_name, soil) ==
  /\ Lower(crop_name) \in CropKeys
  /\ \/ InList(soil, CROP_RULES[KeyIndex[Lower(crop_name)]].preferred_soils)
     \/ InList(soil, CROP_RULES[KeyIndex[Lower(crop_name)]].acceptable_soils)

\* a candidate is accepted: no rule record, or soil check passed
Accepted(crop_name, soil) == Lower(crop_name) \notin CropKeys \/ SoilListed(crop_name, soil)

AcceptedPositions == {i \in 1..Len(ReqCandidates) : Accepted(ReqCandidates[i].crop, ReqSoil)}

FirstAccepted == CHOOSE i \in AcceptedPositions : \A j \in AcceptedPositions : i <= j

FilteredOutNames == [i \in 1..Len(response.crops_filtered_out) |-> response.crops_filtered_out[i].crop]

\* C1: when some candidate of [recommended crop] + alternatives is accepted,
\* the final crop is the first accepted candidate in that order, and
\* crops_filtered_out lists exactly the candidates before it, in walk order.
C1_FirstAcceptedWins ==
  (HybridDone /\ AcceptedPositions # {}) =>
    /\ response.crop_recommendation.recommended_crop = ReqCandidates[FirstAccepted].crop
    /\ FilteredOutNames = [i \in 1..(FirstAccepted - 1) |-> ReqCandidates[i].crop]

\* two candidates rejected, the third accepted, a fourth never looked at
C1_Witness ==
  /\ HybridDone
  /\ AcceptedPositions # {}
  /\ FirstAccepted = 3
  /\ Len(ReqCandidates) = 4
  /\ Len(response.crops_filtered_out) = 2

\* C2: hybrid_analyze always returns a non-empty final recommended crop,
\* whatever the classifiers answered, also when they answered nothing.
C2_AlwaysACrop ==
  HybridDone => response.crop_recommendation.recommended_crop # ""

\* both classifier outputs absent, and a result with the crop "Unknown"
C2_Witness ==
  /\ HybridDone
  /\ request.soil_model = None
  /\ request.crop_model = None
  /\ response.crop_recommendation.recommended_crop = "Unknown"

C4_AbsoluteFallback ==
  (HybridDone /\ AcceptedPositions = {} /\ response.alternative_crops = <<>>) =>
    /\ response.crop_recommendation.recommended_crop = ReqMlCrop
    /\ response.crop_recommendation.ml_confidence = 10 * ReqMlConfidence
    /\ response.rule_validation.has_rules
    /\ response.rule_validation.validations.soil_type.passed = FALSE
    /\ response.rule_validation.validations.ph.passed
         = (/\ CROP_RULES[KeyIndex[Lower(ReqMlCrop)]].ph_min <= request.m.ph
            /\ request.m.ph <= CROP_RULES[KeyIndex[Lower(ReqMlCrop)]].ph_max)
    /\ response.warnings # <<>>
    /\ \E i \in 1..Len(response.warnings) :
         /\ response.warnings[i].kind = "soil_not_suitable"
         /\ response.warnings[i].crop = ReqMlCrop
    /\ response.rule_validation.validation_score > 0
    /\ locals.final_rule_validation.crop = ReqMlCrop
    /\ locals.final_rule_validation.warnings = response.warnings
    /\ locals.final_rule_validation.validation_score
         = Some(response.rule_validation.validation_score)

\* predicted soil Peaty, which no rule lists: the raw ML crop is kept
C4_Witness ==
  /\ HybridDone
  /\ AcceptedPositions = {}
  /\ ReqSoil = "Peaty"
  /\ response.alternative_crops = <<>>
  /\ response.crop_recommendation.recommended_crop = "rice"
  /\ response.crop_recommendation.ml_confidence = 66600

\* C5: base_score = final_crop_confidence * 0.6 + validation_score * 0.4, with
\* validation_score 0 for a crop without rules; final_score =
\* max(0, base_score - 5 * warning_count), so it is never negative and never
\* grows with the number of warnings.
C5_ScoreFusion ==
  HybridDone =>
    /\ (~response.rule_validation.has_rules => response.rule_validation.validation_score = 0)
    /\ 10 * locals.base_score
         = 6 * response.crop_recommendation.ml_confidence
           + 4 * (100 * response.rule_validation.validation_score)
    /\ locals.final_score
         = (IF locals.base_score - 5000 * Len(response.warnings) > 0
              THEN locals.base_score - 5000 * Len(response.warnings) ELSE 0)
    /\ locals.final_score >= 0
    /\ response.final_score >= 0
    /\ \A w \in 0..MaxWarnings :
         /\ FinalScore(locals.base_score, w) >= 0
         /\ FinalScore(locals.base_score, w + 1) <= FinalScore(locals.base_score, w)

\* the penalty exceeds the base score and the final score is held at 0
C5_Witness ==
  /\ HybridDone
  /\ locals.base_score > 0
  /\ locals.base_score < 5000 * Len(response.warnings)
  /\ locals.final_score = 0

\* the band of a score s (thousandths) in the precedence Excellent, Good,
\* Moderate, Fair, Poor
BandOf(s) ==
  IF s >= 80000 /\ response.rule_validation.all_checks_passed THEN "Excellent"
  ELSE IF s >= 70000 /\ Len(response.warnings) <= 1 THEN "Good"
  ELSE IF \/ s >= 50000
          \/ /\ response.rule_validation.validation_score >= 800
             /\ response.crop_recommendation.ml_confidence >= 40000
    THEN "Moderate"
  ELSE IF s >= 30000 THEN "Fair"
  ELSE "Poor"

\* C6 as stated: with fewer than 3 warnings the quality is the band of the
\* result's final_score, the score as returned (rounded to one decimal).
C6_BandOfReportedScore ==
  (HybridDone /\ Len(response.warnings) < 3) =>
    response.recommendation_quality = BandOf(100 * response.final_score)

\* C6 amended: with fewer than 3 warnings the quality is the band of the
\* final score before it is rounded for the result,
\* max(0, base_score - 5 * warning_count).
C6_BandOfUnroundedScore ==
  (HybridDone /\ Len(response.warnings) < 3) =>
    /\ response.recommendation_quality = BandOf(locals.final_score)
    /\ response.final_score \in RoundTenths(locals.final_score)
    /\ 100 * response.final_score - locals.final_score <= 50
    /\ locals.final_score - 100 * response.final_score <= 50

\* a score just under 80 that is returned as 80.0: all checks passed, "Good"
C6_Witness ==
  /\ HybridDone
  /\ response.warnings = <<>>
  /\ response.rule_validation.all_checks_passed
  /\ locals.final_score = 79960
  /\ response.final_score = 800
  /\ response.recommendation_quality = "Good"

\* C7: the quality is "Needs Review" exactly when the final crop's validation
\* carries 3 or more warnings, whatever the score.
C7_NeedsReviewIffThreeWarnings ==
  HybridDone =>
    /\ (response.recommendation_quality = "Needs Review") <=> (Len(response.warnings) >= 3)
    /\ response.warnings = locals.final_rule_validation.warnings

\* base_score 85 with 3 warnings: final_score 70, "Needs Review"
C7_Witness ==
  /\ HybridDone
  /\ Len(response.warnings) = 3
  /\ locals.base_score = 85000
  /\ locals.final_score = 70000
  /\ response.final_score = 700
  /\ response.recommendation_quality = "Needs Review"

\* validation_score (tenths) of the i-th crop of the table for the request
ReqScore(i) == validate_crop(CROP_RULES[i].key, request.soil_type, request.m).validation_score[1]

\* the crops of the table whose rule lists the requested soil type
ReqCompatible == {i \in RuleIndexSet : SoilListed(CROP_RULES[i].key, request.soil_type)}

\* i is ranked before j: higher score, or equal score and earlier in the table
RankedBefore(i, j) == ReqScore(i) > ReqScore(j) \/ (ReqScore(i) = ReqScore(j) /\ i < j)

\* C8: every entry get_suitable_crops returns is a crop whose rule lists the
\* given soil type as preferred or acceptable, marked soil_compatible; rice is
\* never returned for Sandy soil.
C8_OnlySoilCompatible ==
  RankerDone =>
    \A i \in 1..Len(response) :
      /\ SoilListed(response[i].crop, request.soil_type)
      /\ response[i].soil_compatible
      /\ (request.soil_type = "Sandy" => Lower(response[i].crop) # "rice")

\* Sandy soil: entries are returned although rice, left out, scores higher
\* than the last of them
C8_Witness ==
  /\ RankerDone
  /\ request.soil_type = "Sandy"
  /\ response # <<>>
  /\ ~SoilListed("rice", "Sandy")
  /\ ReqScore(KeyIndex["rice"]) > response[Len(response)].validation_score

\* C9: get_suitable_crops returns the first top_n of all soil-compatible crops
\* ordered by validation_score descending, equal scores in table order.
C9_TopNStableDescending ==
  RankerDone =>
    /\ Len(response) <= request.top_n
    /\ Len(response) = (IF request.top_n < Cardinality(ReqCompatible)
                          THEN request.top_n ELSE Cardinality(ReqCompatible))
    /\ \A k \in 1..Len(response) :
         /\ Lower(response[k].crop) \in CropKeys
         /\ KeyIndex[Lower(response[k].crop)] \in ReqCompatible
         /\ response[k].validation_score = ReqScore(KeyIndex[Lower(response[k].crop)])
         /\ Cardinality({j \in ReqCompatible : RankedBefore(j, KeyIndex[Lower(response[k].crop)])}) = k - 1
    /\ \A k \in 1..(Len(response) - 1) :
         /\ response[k].validation_score >= response[k + 1].validation_score
         /\ (response[k].validation_score = response[k + 1].validation_score
               => KeyIndex[Lower(response[k].crop)] < KeyIndex[Lower(response[k + 1].crop)])

\* two entries of equal score are returned, and the cut at top_n leaves out a
\* compatible crop
C9_Witness ==
  /\ RankerDone
  /\ request.top_n < Cardinality(ReqCompatible)
  /\ Len(response) = request.top_n
  /\ \E k \in 1..(Len(response) - 1) :
       response[k].validation_score = response[k + 1].validation_score

\* C10: validate_crop returns validation_score null exactly when has_rules is
\* false, which is exactly when the lower-cased crop name is not a key of the
\* table; otherwise the score lies in [0, 100].
C10_ScoreNullIffNoRules ==
  ValidateDone =>
    /\ (response.validation_score = None) <=> ~response.has_rules
    /\ response.has_rules <=> (Lower(request.crop_name) \in CropKeys)
    /\ response.has_rules =>
         /\ response.validation_score[1] >= 0
         /\ response.validation_score[1] <= 1000

\* a crop without a rule record: no score
C10_WitnessNoRules ==
  /\ ValidateDone
  /\ request.crop_name = "Sugarcane"
  /\ ~response.has_rules
  /\ response.validation_score = None

(***************************************************************************)
(* validate_crop: the checks it reports.                                   *)
(***************************************************************************)
\* the result is for a crop that has rules
ValidatedWithRules == ValidateDone /\ response.has_rules

\* the five field checks are optimal / preferred and the nutrients adequate
AllOptimal ==
  /\ response.validations.ph.optimal
  /\ response.validations.soil_type.preferred
  /\ response.validations.rainfall.optimal
  /\ response.validations.temperature.optimal
  /\ response.validations.humidity.optimal
  /\ response.validations.nutrients.passed

\* Scenario 1: rice on Clayey soil, N=100, P=50, K=50, 27 C, 85 %, pH 6.0, 220 mm
Scenario1 ==
  /\ ValidateDone
  /\ request.crop_name = "rice"
  /\ request.soil_type = "Clayey"
  /\ request.m = [nitrogen |-> 100, phosphorus |-> 50, potassium |-> 50,
                  temperature |-> 27, humidity |-> 850, ph |-> 60, rainfall |-> 220]

\* C11: Scenario 1 reports pH optimal, soil preferred, rainfall, temperature
\* and humidity optimal and nutrients adequate, with validation_score 100.0
\* and all_passed; and whenever the five field checks are optimal/preferred
\* and the nutrients adequate, the score is exactly 100.0 with no warnings.
C11_AllOptimalScoresHundred ==
  /\ Scenario1 =>
       /\ response.has_rules
       /\ AllOptimal
       /\ response.validation_score = Some(1000)
       /\ response.all_passed
  /\ (ValidatedWithRules /\ AllOptimal) =>
       /\ response.validation_score = Some(1000)
       /\ response.warnings = <<>>

\* Scenario 1 has been validated and scored 100.0
C11_Witness ==
  /\ Scenario1
  /\ AllOptimal
  /\ response.validation_score = Some(1000)

(***************************************************************************)
(* hybrid_analyze: the scenarios.                                          *)
(***************************************************************************)
\* the crop classifier ranks wheat first and maize second
WheatThenMaize ==
  /\ request.crop_model # None
  /\ request.crop_model[1].has_proba
  /\ Len(request.crop_model[1].ranked) >= 2
  /\ request.crop_model[1].ranked[1].crop = "wheat"
  /\ request.crop_model[1].ranked[2].crop = "maize"

\* maize is the final crop, wheat is among the crops filtered out, and a
\* suggestion says that Maize was selected over wheat
MaizeOverWheat ==
  /\ response.crop_recommendation.recommended_crop = "maize"
  /\ \E i \in 1..Len(response.crops_filtered_out) :
       response.crops_filtered_out[i].crop = "wheat"
  /\ \E i \in 1..Len(response.suggestions) :
       /\ response.suggestions[i].kind = "selected_over"
       /\ response.suggestions[i].crop = "Maize"
       /\ response.suggestions[i].txt = "wheat"

\* C12 as stated: with predicted soil "Laterite" and the ML candidates wheat
\* then maize, wheat fails the soil check and maize passes it, so maize is the
\* final crop, wheat is filtered out and a suggestion notes the replacement.
C12_MaizeOnLaterite ==
  (HybridDone /\ ReqSoil = "Laterite" /\ WheatThenMaize) => MaizeOverWheat

\* C12 amended: with predicted soil "Sandy" (a soil of maize's lists and not
\* of wheat's) and the ML candidates wheat then maize, maize is the final
\* crop, wheat is filtered out and a suggestion notes the replacement.
C12_MaizeOnSandy ==
  (HybridDone /\ ReqSoil = "Sandy" /\ WheatThenMaize) =>
    /\ ~SoilListed("wheat", "Sandy")
    /\ SoilListed("maize", "Sandy")
    /\ MaizeOverWheat

\* wheat then maize on Sandy soil, answered with maize
C12_Witness ==
  /\ HybridDone
  /\ ReqSoil = "Sandy"
  /\ WheatThenMaize
  /\ response.crop_recommendation.recommended_crop = "maize"
  /\ Len(response.crops_filtered_out) = 2

(***************************************************************************)
(* Crops without a rule record.                                            *)
(***************************************************************************)
\* the first accepted candidate of the walk has no rule record
FirstAcceptedHasNoRules ==
  /\ AcceptedPositions # {}
  /\ Lower(ReqCandidates[FirstAccepted].crop) \notin CropKeys

\* C13: a crop name whose lower-case form is not a key of the rule table is
\* answered by validate_crop with has_rules = false, a null score and empty
\* validations, warnings and suggestions; the lookup ignores case, so "Rice"
\* and "RICE" get the checks and the score of "rice"; and hybrid_analyze takes
\* such a candidate as the final crop at its position in the walk and does not
\* put it into crops_filtered_out.
C13_NoRulesIsAccepted ==
  /\ (ValidateDone /\ Lower(request.crop_name) \notin CropKeys) =>
       /\ ~response.has_rules
       /\ response.validation_score = None
       /\ response.validations = EmptyDict
       /\ response.warnings = <<>>
       /\ response.suggestions = <<>>
  /\ (ValidateDone /\ request.crop_name \in {"Rice", "RICE"}) =>
       /\ response.has_rules
       /\ response.validation_score =
            validate_crop("rice", request.soil_type, request.m).validation_score
       /\ response.validations =
            validate_crop("rice", request.soil_type, request.m).validations
       /\ response.all_passed =
            validate_crop("rice", request.soil_type, request.m).all_passed
  /\ (HybridDone /\ FirstAcceptedHasNoRules) =>
       /\ response.crop_recommendation.recommended_crop = ReqCandidates[FirstAccepted].crop
       /\ ~response.rule_validation.has_rules
       /\ Len(response.crops_filtered_out) = FirstAccepted - 1
       /\ \A i \in 1..Len(response.crops_filtered_out) :
            response.crops_filtered_out[i].crop # ReqCandidates[FirstAccepted].crop

\* rice is rejected on Sandy soil and "Sugarcane", which has no rules, is
\* taken at the third position of the walk
C13_Witness ==
  /\ HybridDone
  /\ ReqSoil = "Sandy"
  /\ FirstAcceptedHasNoRules
  /\ FirstAccepted = 3
  /\ response.crop_recommendation.recommended_crop = "Sugarcane"
  /\ Len(response.crops_filtered_out) = 2

(***************************************************************************)
(* Missing classifier outputs.                                             *)
(***************************************************************************)
\* the soil defaults "Unknown" / 0 are in the result
SoilDefaulted ==
  response.soil_analysis = [predicted_type |-> "Unknown", confidence |-> 0]

\* the crop defaults "Unknown" / 0 / [] went through the walk
CropDefaulted ==
  /\ response.crop_recommendation.recommended_crop = "Unknown"
  /\ response.crop_recommendation.ml_confidence = 0
  /\ response.crop_recommendation.original_ml_prediction = None
  /\ response.crops_filtered_out = <<>>

\* C14 as stated: when the soil classifier output or the crop classifier
\* output (or both) is missing, the defaults are substituted and the
\* recommendation_quality is "Poor" or "Needs Review".
C14_MissingOutputLowQuality ==
  (HybridDone /\ (request.soil_model = None \/ request.crop_model = None)) =>
    /\ request.soil_model = None => SoilDefaulted
    /\ request.crop_model = None => CropDefaulted
    /\ response.recommendation_quality \in {"Poor", "Needs Review"}

\* C14 amended: a missing soil output is replaced by "Unknown" / 0 and a
\* missing crop output by "Unknown" / 0 / []; when the crop output is missing
\* the recommendation_quality is "Poor"; when only the soil output is missing
\* the quality is the one the scoring gives and is never "Excellent".
C14_MissingCropOutputPoor ==
  /\ (HybridDone /\ request.soil_model = None) =>
       /\ SoilDefaulted
       /\ response.recommendation_quality # "Excellent"
  /\ (HybridDone /\ request.crop_model = None) =>
       /\ CropDefaulted
       /\ response.recommendation_quality = "Poor"

\* the crop output is missing, the soil output is not: "Unknown", "Poor"
C14_Witness ==
  /\ HybridDone
  /\ request.soil_model # None
  /\ request.crop_model = None
  /\ CropDefaulted
  /\ response.recommendation_quality = "Poor"

\* only the soil output is missing and the result is rated "Good"
C14_SoilMissingGood ==
  /\ HybridDone
  /\ request.soil_model = None
  /\ request.crop_model # None
  /\ SoilDefaulted
  /\ response.recommendation_quality = "Good"

(***************************************************************************)
(* validate_crop: score, warnings, all_passed.                             *)
(***************************************************************************)
\* the contribution of one check, in tenths, read off the reported flags
Contribution(best, passed, full, partial, failing) ==
  IF best THEN full ELSE IF passed THEN partial ELSE failing

\* the sum of the six contributions of the reported checks, in tenths
ContributionSum ==
  Contribution(response.validations.ph.optimal, response.validations.ph.passed, 10, 7, 0)
  + Contribution(response.validations.soil_type.preferred, response.validations.soil_type.passed, 10, 7, 0)
  + Contribution(response.validations.rainfall.optimal, response.validations.rainfall.passed, 10, 7, 3)
  + Contribution(response.validations.temperature.optimal, response.validations.temperature.passed, 10, 7, 2)
  + Contribution(response.validations.humidity.optimal, response.validations.humidity.passed, 10, 8, 4)
  + Contribution(response.validations.nutrients.passed, response.validations.nutrients.passed, 10, 10, 6)

\* C17: for a crop with rules, validation_score is the mean of exactly six
\* contributions times 100, rounded to one decimal: the score s (in tenths)
\* is the integer nearest to 100 * sum / 6, i.e. |6 s - 100 sum| < 3, with
\* pH 1.0/0.7/0.0, soil 1.0/0.7/0.0, rainfall 1.0/0.7/0.3, temperature
\* 1.0/0.7/0.2, humidity 1.0/0.8/0.4 and nutrients 1.0/0.6.
C17_ScoreIsMeanOfSix ==
  ValidatedWithRules =>
    /\ DOMAIN response.validations =
         {"ph", "soil_type", "rainfall", "temperature", "humidity", "nutrients"}
    /\ 6 * response.validation_score[1] - 100 * ContributionSum < 3
    /\ 100 * ContributionSum - 6 * response.validation_score[1] < 3

\* every check fails: 0.0 + 0.0 + 0.3 + 0.2 + 0.4 + 0.6 gives 25.0
C17_Witness ==
  /\ ValidatedWithRules
  /\ ~response.validations.ph.passed
  /\ ~response.validations.soil_type.passed
  /\ ~response.validations.rainfall.passed
  /\ ~response.validations.temperature.passed
  /\ ~response.validations.humidity.passed
  /\ ~response.validations.nutrients.passed
  /\ ContributionSum = 15
  /\ response.validation_score = Some(250)

\* the rule record of the validated crop
ReqRule == CROP_RULES[KeyIndex[Lower(request.crop_name)]]

\* 1 if the reported check failed, else 0
Failed(check) == IF response.validations[check].passed THEN 0 ELSE 1

\* the nutrients the crop needs at HIGH level that do not measure HIGH
Shortfalls ==
  (IF ReqRule.nitrogen_need = "High" /\ request.m.nitrogen <= 80 THEN 1 ELSE 0)
  + (IF ReqRule.phosphorus_need = "High" /\ request.m.phosphorus <= 60 THEN 1 ELSE 0)
  + (IF ReqRule.potassium_need = "High" /\ request.m.potassium <= 70 THEN 1 ELSE 0)

\* C18 as stated: warnings holds one message for every failing field check
\* (pH, soil type, rainfall, temperature, humidity) and one for every
\* HIGH-need nutrient shortfall.
C18_WarningPerFailedCheck ==
  ValidatedWithRules =>
    Len(response.warnings) =
      Failed("ph") + Failed("soil_type") + Failed("rainfall") + Failed("temperature")
      + Failed("humidity") + Shortfalls

\* C18 amended: warnings holds one message for every failing check among pH,
\* soil type, rainfall and temperature and one for every HIGH-need nutrient
\* shortfall; a failing humidity check adds no warning but the suggestion to
\* manage humidity.
C18_WarningPerFailedCheckButHumidity ==
  ValidatedWithRules =>
    /\ Len(response.warnings) =
         Failed("ph") + Failed("soil_type") + Failed("rainfall") + Failed("temperature")
         + Shortfalls
    /\ \A i \in 1..Len(response.warnings) :
         response.warnings[i].kind # "humidity_management"
    /\ (Failed("humidity") = 1) <=>
         \E i \in 1..Len(response.suggestions) :
           response.suggestions[i].kind = "humidity_management"

\* humidity and the four other field checks fail and two nutrients fall
\* short: six warnings, none of them for humidity
C18_Witness ==
  /\ ValidatedWithRules
  /\ Failed("humidity") = 1
  /\ Failed("ph") + Failed("soil_type") + Failed("rainfall") + Failed("temperature") = 4
  /\ Shortfalls = 2
  /\ Len(response.warnings) = 6

\* C19: for a crop with rules, all_passed is true exactly when the passed
\* flag of each of the six checks is true, and the nutrients check is passed
\* exactly when no HIGH-need nutrient falls short.
C19_AllPassedIsConjunction ==
  ValidatedWithRules =>
    /\ response.all_passed <=>
         /\ response.validations.ph.passed
         /\ response.validations.soil_type.passed
         /\ response.validations.rainfall.passed
         /\ response.validations.temperature.passed
         /\ response.validations.humidity.passed
         /\ response.validations.nutrients.passed
    /\ response.validations.nutrients.passed <=> (Shortfalls = 0)

\* the five field checks pass and a nutrient falls short: all_passed is false
C19_Witness ==
  /\ ValidatedWithRules
  /\ Failed("ph") + Failed("soil_type") + Failed("rainfall") + Failed("temperature")
     + Failed("humidity") = 0
  /\ Shortfalls > 0
  /\ ~response.validations.nutrients.passed
  /\ ~response.all_passed

(***************************************************************************)
(* validate_nutrients.                                                     *)
(***************************************************************************)
NutrientsDone == pc = "done" /\ request.op = "validate_nutrients"

\* the rule record validate_nutrients was called with
NutrientsRule == CROP_RULES[KeyIndex[request.crop_key]]

\* the message a nutrient gets, by the crop's need and whether it measures HIGH
ExpectedKind(need, measuresHigh) ==
  IF need = "High" /\ ~measuresHigh THEN "warn_needs_high"
  ELSE IF need = "Low" /\ measuresHigh THEN "info_excess"
  ELSE "ok_suitable"

\* C20: all_adequate is true exactly when every nutrient the crop needs at
\* HIGH level measures HIGH (N > 80, P > 60, K > 70, a value equal to the
\* threshold being MODERATE); a HIGH-need nutrient below HIGH gets one
\* warning, a LOW-need nutrient measuring HIGH gets an informational note
\* that does not fail the check, every other combination is suitable.
C20_NutrientsAdequacy ==
  NutrientsDone =>
    /\ Len(response.messages) = 3
    /\ response.messages[1].kind = ExpectedKind(NutrientsRule.nitrogen_need, request.n > 80)
    /\ response.messages[2].kind = ExpectedKind(NutrientsRule.phosphorus_need, request.p > 60)
    /\ response.messages[3].kind = ExpectedKind(NutrientsRule.potassium_need, request.k > 70)
    /\ response.all_adequate <=>
         /\ NutrientsRule.nitrogen_need = "High" => request.n > 80
         /\ NutrientsRule.phosphorus_need = "High" => request.p > 60
         /\ NutrientsRule.potassium_need = "High" => request.k > 70
    /\ response.all_adequate <=>
         \A i \in 1..3 : response.messages[i].kind # "warn_needs_high"
    /\ (request.n = 80 /\ response.messages[1].kind # "info_excess") =>
         response.messages[1].level = "Moderate"
    /\ (request.p = 60 /\ response.messages[2].kind # "info_excess") =>
         response.messages[2].level = "Moderate"
    /\ (request.k = 70 /\ response.messages[3].kind # "info_excess") =>
         response.messages[3].level = "Moderate"

\* nitrogen needed HIGH and measured at the threshold 80: a warning; potassium
\* needed LOW and measured HIGH: a note; phosphorus needed MODERATE and
\* measured LOW: suitable
C20_Witness ==
  /\ NutrientsDone
  /\ NutrientsRule.nitrogen_need = "High" /\ request.n = 80
  /\ NutrientsRule.phosphorus_need = "Moderate" /\ request.p = 29
  /\ NutrientsRule.potassium_need = "Low" /\ request.k = 71
  /\ response.messages[1].kind = "warn_needs_high"
  /\ response.messages[2].kind = "ok_suitable"
  /\ response.messages[3].kind = "info_excess"
  /\ ~response.all_adequate

(***************************************************************************)
(* Totality.                                                               *)
(***************************************************************************)
Qualities == {"Excellent", "Good", "Moderate", "Fair", "Poor", "Needs Review"}

\* a score in tenths between 0.0 and 100.0
IsScore(x) == x \in 0..1000

\* the called function has a step to take: the request is one a handler
\* accepts and, for hybrid_analyze, the reported score has a value
HandlerEnabled ==
  \/ request.op \in {"validate_crop", "validate_nutrients", "validate_field", "get_suitable_crops",
                    "prepare_input"}
  \/ /\ request.op = "hybrid_analyze"
     /\ \E r \in {hybrid_analyze(request.m, request.soil_model, request.crop_model)} :
          RoundTenths(r.locals.final_score) # {}

\* validate_crop returned one of its two dictionaries
ValidateResultOk ==
  /\ response.has_rules \in BOOLEAN
  /\ response.crop = request.crop_name
  /\ response.validation_score = None \/ IsScore(response.validation_score[1])
  /\ Len(response.warnings) \in 0..MaxWarnings
  /\ Len(response.suggestions) \in 0..3

\* get_suitable_crops returned a list of at most top_n scored entries
RankerResultOk ==
  /\ Len(response) <= request.top_n
  /\ \A i \in 1..Len(response) :
       /\ IsScore(response[i].validation_score)
       /\ response[i].all_passed \in BOOLEAN
       /\ response[i].warnings_count \in 0..MaxWarnings
       /\ Lower(response[i].crop) \in CropKeys

\* hybrid_analyze returned its dictionary with every field set
HybridResultOk ==
  /\ response.soil_analysis.predicted_type \in SoilLabels
  /\ response.soil_analysis.confidence \in 0..10000
  /\ response.crop_recommendation.recommended_crop # ""
  /\ response.crop_recommendation.ml_confidence \in 0..100000
  /\ response.rule_validation.has_rules \in BOOLEAN
  /\ IsScore(response.rule_validation.validation_score)
  /\ response.rule_validation.all_checks_passed \in BOOLEAN
  /\ IsScore(response.final_score)
  /\ response.recommendation_quality \in Qualities
  /\ Len(response.warnings) \in 0..MaxWarnings
  /\ Len(response.alternative_crops) <= 5
  /\ Len(response.crop_recommendation.alternatives) <= 3
  /\ response.input_summary = request.m

\* C15: validate_crop, get_suitable_crops and hybrid_analyze are total: for
\* every measurement, soil label and classifier output (also a confidence of
\* exactly 0 and an empty alternatives list) the called function takes its
\* step and leaves a complete result.
C15_Total ==
  /\ pc = "called" => HandlerEnabled
  /\ ValidateDone => ValidateResultOk
  /\ RankerDone => RankerResultOk
  /\ HybridDone => HybridResultOk

\* both classifiers answer without probabilities: confidence exactly 0 and
\* no alternatives; the result is complete
C15_Witness ==
  /\ HybridDone
  /\ request.soil_model # None /\ ~request.soil_model[1].has_proba
  /\ request.crop_model # None /\ ~request.crop_model[1].has_proba
  /\ response.soil_analysis.confidence = 0
  /\ response.crop_recommendation.ml_confidence = 0
  /\ HybridResultOk

(***************************************************************************)
(* The interval checks.                                                    *)
(***************************************************************************)
FieldDone == pc = "done" /\ request.op = "validate_field"

FieldRule == RuleOf(request.crop_key)

\* the closed optimal interval of the called check
OptimalInterval ==
  IF request.field = "ph" THEN FieldRule.ph_optimal_min..FieldRule.ph_optimal_max
  ELSE IF request.field = "rainfall"
    THEN FieldRule.optimal_rainfall_min..FieldRule.optimal_rainfall_max
  ELSE IF request.field = "temperature"
    THEN FieldRule.optimal_temp_min..FieldRule.optimal_temp_max
  ELSE (5 * (FieldRule.min_humidity + FieldRule.max_humidity)
          - 3 * (FieldRule.max_humidity - FieldRule.min_humidity))
       ..(5 * (FieldRule.min_humidity + FieldRule.max_humidity)
          + 3 * (FieldRule.max_humidity - FieldRule.min_humidity))

\* the closed acceptable interval of the called check
AcceptableInterval ==
  IF request.field = "ph" THEN FieldRule.ph_min..FieldRule.ph_max
  ELSE IF request.field = "rainfall" THEN FieldRule.min_rainfall..FieldRule.max_rainfall
  ELSE IF request.field = "temperature"
    THEN FieldRule.min_temperature..FieldRule.max_temperature
  ELSE (10 * FieldRule.min_humidity)..(10 * FieldRule.max_humidity)

\* C21: each of the pH, rainfall, temperature and humidity checks answers
\* (passed, optimal) exactly for a value in the closed optimal interval,
\* (passed, not optimal) exactly for a value outside it but in the closed
\* acceptable interval, (not passed, not optimal) otherwise and never (not
\* passed, optimal); the humidity optimal interval, 0.3 of the width either
\* side of the midpoint, lies inside the acceptable range.
C21_ThreeVerdicts ==
  FieldDone =>
    /\ (response.passed /\ response.optimal) <=> request.value \in OptimalInterval
    /\ (response.passed /\ ~response.optimal) <=>
         (request.value \notin OptimalInterval /\ request.value \in AcceptableInterval)
    /\ (~response.passed /\ ~response.optimal) <=>
         (request.value \notin OptimalInterval /\ request.value \notin AcceptableInterval)
    /\ ~(~response.passed /\ response.optimal)
    /\ request.field = "humidity" => OptimalInterval \subseteq AcceptableInterval

\* a pH exactly at the lower end of the acceptable interval, below the
\* optimal one: passed, not optimal
C21_Witness ==
  /\ FieldDone
  /\ request.field = "ph"
  /\ request.value = FieldRule.ph_min
  /\ request.value < FieldRule.ph_optimal_min
  /\ response.passed /\ ~response.optimal

(***************************************************************************)
(* The rule table.                                                         *)
(***************************************************************************)
\* lo <= optimal lo <= optimal hi <= hi
Nested(lo, opt_lo, opt_hi, hi) == lo <= opt_lo /\ opt_lo <= opt_hi /\ opt_hi <= hi

\* the conditions on one entry of the table, stored under key
EntryWellFormed(key, rule) ==
  /\ Nested(rule.ph_min, rule.ph_optimal_min, rule.ph_optimal_max, rule.ph_max)
  /\ Nested(rule.min_rainfall, rule.optimal_rainfall_min, rule.optimal_rainfall_max,
            rule.max_rainfall)
  /\ Nested(rule.min_temperature, rule.optimal_temp_min, rule.optimal_temp_max,
            rule.max_temperature)
  /\ rule.min_humidity <= rule.max_humidity
  /\ \A i \in DOMAIN rule.preferred_soils :
       ~InList(rule.preferred_soils[i], rule.acceptable_soils)
  /\ Spelling[key] = LowerChars(Spelling[rule.crop_name])

\* C22: every entry of CROP_RULES has min <= optimal_min <= optimal_max <= max
\* for pH, rainfall and temperature, min_humidity <= max_humidity, preferred
\* and acceptable soils disjoint, and its key is the lower case of its
\* crop_name.  Every entry is consulted by some check, and is examined
\* when it is.
C22_RuleTableWellFormed ==
  FieldDone => EntryWellFormed(request.crop_key, RuleOf(request.crop_key))

\* a check has been run against an entry whose three optimal intervals are
\* strictly inside the acceptable ones and which lists soils of both kinds
C22_Witness ==
  /\ FieldDone
  /\ EntryWellFormed(request.crop_key, FieldRule)
  /\ FieldRule.ph_min < FieldRule.ph_optimal_min
  /\ FieldRule.optimal_rainfall_max < FieldRule.max_rainfall
  /\ FieldRule.min_temperature < FieldRule.optimal_temp_min
  /\ FieldRule.preferred_soils # <<>> /\ FieldRule.acceptable_soils # <<>>
  /\ FieldRule.crop_name # request.crop_key

CropReplaced ==
  Lower(response.crop_recommendation.recommended_crop) # Lower(ReqMlCrop)

\* the note that the final crop was selected over the ML top choice
SelectedNote ==
  [kind |-> "selected_over",
   crop |-> Capitalize(response.crop_recommendation.recommended_crop),
   num |-> 0, txt |-> ReqMlCrop, level |-> ""]

\* the note naming the first one or two entries of crops_filtered_out
SkippedNote ==
  [kind |-> "crops_skipped", crop |-> "", num |-> 0, txt |-> "", level |-> "",
   names |-> [i \in 1..(IF Len(response.crops_filtered_out) < 2
                          THEN Len(response.crops_filtered_out) ELSE 2) |->
                response.crops_filtered_out[i].crop]]

\* C24: the suggestions of hybrid_analyze are, in this order: the note naming
\* the final crop and the ML top choice, iff the two differ
\* case-insensitively; the suggestions of the final crop's validation; the
\* note naming the first one or two crops filtered out, iff any was; the
\* soil-testing note, iff the soil confidence is below 70.
C24_SuggestionsInOrder ==
  HybridDone =>
    response.suggestions =
      (IF CropReplaced THEN <<SelectedNote>> ELSE <<>>)
      \o Get(locals.final_rule_validation, "suggestions", <<>>)
      \o (IF response.crops_filtered_out # <<>> THEN <<SkippedNote>> ELSE <<>>)
      \o (IF response.soil_analysis.confidence < 7000
            THEN <<Msg("soil_confidence_low", "", 0, "")>> ELSE <<>>)

\* all four parts are present and three candidates were filtered out
C24_Witness ==
  /\ HybridDone
  /\ CropReplaced
  /\ Get(locals.final_rule_validation, "suggestions", <<>>) # <<>>
  /\ Len(response.crops_filtered_out) = 3
  /\ response.soil_analysis.confidence < 7000
  /\ Len(response.suggestions) = Len(locals.final_rule_validation.suggestions) + 3
  /\ response.suggestions[1].kind = "selected_over"
  /\ response.suggestions[Len(response.suggestions)].kind = "soil_confidence_low"

(***************************************************************************)
(* The displayed alternatives.                                             *)
(***************************************************************************)
FinalCrop == response.crop_recommendation.recommended_crop

\* the first three entries of the step-4 ranker result
RankerTopThree ==
  SubSeq(response.alternative_crops, 1,
         IF Len(response.alternative_crops) < 3 THEN Len(response.alternative_crops) ELSE 3)

NotFinalCrop(entry) == Lower(entry.crop) # Lower(FinalCrop)

\* the first three ranker entries other than the final crop, in ranker order
RankerTopThreeOthers == SelectSeq(RankerTopThree, NotFinalCrop)

\* C25: the alternatives displayed in crop_recommendation are the first
\* three entries of the step-4 get_suitable_crops(top_n = 5) result without
\* the final crop (compared case-insensitively), each with its
\* validation_score as confidence: the final crop is never among them, there
\* are at most 3, and they are in ranker order.
C25_DisplayedAlternatives ==
  HybridDone =>
    LET alternatives == response.crop_recommendation.alternatives IN
    /\ Len(response.alternative_crops) <= 5
    /\ Len(alternatives) = Len(RankerTopThreeOthers)
    /\ \A i \in 1..Len(alternatives) :
         /\ alternatives[i].crop = RankerTopThreeOthers[i].crop
         /\ alternatives[i].confidence = RankerTopThreeOthers[i].validation_score
         /\ Lower(alternatives[i].crop) # Lower(FinalCrop)
    /\ Len(alternatives) <= 3

\* the final crop is the second of at least four ranker entries: the first and
\* the third are displayed, the fourth is not
C25_Witness ==
  /\ HybridDone
  /\ Len(response.alternative_crops) >= 4
  /\ Lower(response.alternative_crops[2].crop) = Lower(FinalCrop)
  /\ Len(response.crop_recommendation.alternatives) = 2
  /\ response.crop_recommendation.alternatives[1].crop = response.alternative_crops[1].crop
  /\ response.crop_recommendation.alternatives[2].crop = response.alternative_crops[3].crop

(***************************************************************************)
(* Warnings and the quality labels.                                        *)
(***************************************************************************)
\* the label of Step 6 before the two downgrades
LabelBeforeDowngrade ==
  QualityBand(locals.final_score, response.rule_validation.all_checks_passed,
              Len(response.warnings), response.rule_validation.validation_score,
              response.crop_recommendation.ml_confidence)

\* C26: for a crop with rules, all_passed implies that there is no warning,
\* and no warning without all_passed happens only when humidity alone
\* failed.  So a result rated Excellent has no warning, one rated Good at
\* most one, and the downgrade of Excellent or Good to Moderate at two or
\* more warnings never applies in hybrid_analyze.
C26_AllPassedNoWarnings ==
  /\ (ValidateDone /\ response.has_rules) =>
       /\ response.all_passed => response.warnings = <<>>
       /\ (response.warnings = <<>> /\ ~response.all_passed) =>
            /\ ~response.validations.humidity.passed
            /\ \A check \in {"ph", "soil_type", "rainfall", "temperature", "nutrients"} :
                 response.validations[check].passed
  /\ HybridDone =>
       /\ response.rule_validation.all_checks_passed => response.warnings = <<>>
       /\ response.recommendation_quality = "Excellent" => Len(response.warnings) = 0
       /\ response.recommendation_quality = "Good" => Len(response.warnings) <= 1
       /\ ~(Len(response.warnings) >= 2 /\ LabelBeforeDowngrade \in {"Excellent", "Good"})

\* a result of hybrid_analyze with two warnings whose score alone, 70 or more,
\* would have been in the Good band: the label before the downgrades is
\* already Moderate
C26_Witness ==
  /\ HybridDone
  /\ Len(response.warnings) = 2
  /\ locals.final_score >= 70000
  /\ LabelBeforeDowngrade = "Moderate"
  /\ response.recommendation_quality = "Moderate"

(***************************************************************************)
(* The final crop and the predicted soil.                                  *)
(***************************************************************************)
\* some crop of the table lists the soil as preferred or acceptable
SomeCropLists(soil) == \E key \in CropKeys : SoilListed(key, soil)

\* every ML candidate has a rule record
AllCandidatesHaveRules ==
  \A i \in 1..Len(ReqCandidates) : Lower(ReqCandidates[i].crop) \in CropKeys

\* C27: when the final crop has rules its soil check passed for the predicted
\* soil, unless no crop of the table lists that soil; the absolute fallback
\* to the soil-failing ML crop is taken exactly when the step-4 ranker
\* result is empty and every ML candidate has rules.
C27_FinalCropFitsSoil ==
  HybridDone =>
    /\ (response.rule_validation.has_rules /\ SomeCropLists(ReqSoil)) =>
         response.rule_validation.validations.soil_type.passed
    /\ locals.branch = "fallback" <=>
         (response.alternative_crops = <<>> /\ AllCandidatesHaveRules)
    /\ locals.branch = "fallback" =>
         /\ response.crop_recommendation.recommended_crop = ReqMlCrop
         /\ response.rule_validation.has_rules
         /\ ~response.rule_validation.validations.soil_type.passed
         /\ ~SomeCropLists(ReqSoil)

\* no ML candidate suits the predicted soil, some crop of the table does,
\* and the final crop, taken from the ranker, passes the soil check
C27_Witness ==
  /\ HybridDone
  /\ locals.branch = "rule"
  /\ AllCandidatesHaveRules
  /\ Len(response.crops_filtered_out) = Len(ReqCandidates)
  /\ SomeCropLists(ReqSoil)
  /\ response.rule_validation.has_rules
  /\ response.rule_validation.validations.soil_type.passed

\* the predicted soil is listed by no crop: the ML crop is kept although its
\* soil check failed
C27_WitnessFallback ==
  /\ HybridDone
  /\ locals.branch = "fallback"
  /\ ~SomeCropLists(ReqSoil)
  /\ response.alternative_crops = <<>>
  /\ ~response.rule_validation.validations.soil_type.passed

(***************************************************************************)
(* The reasons recorded in crops_filtered_out.                             *)
(***************************************************************************)
\* the pH of the request is inside the acceptable pH interval of the crop
PhPassedFor(crop_name) ==
  /\ RuleOf(Lower(crop_name)).ph_min <= request.m.ph
  /\ request.m.ph <= RuleOf(Lower(crop_name)).ph_max

\* C28: every entry of crops_filtered_out is a candidate with rules whose
\* soil check failed, and its reason is that candidate's first warning, pH
\* being checked before soil type: the soil warning exactly when the
\* candidate's pH check passed, the pH warning otherwise; the default reason
\* "Soil type mismatch" is never produced.
C28_FilteredOutReasons ==
  HybridDone =>
    \A i \in 1..Len(response.crops_filtered_out) :
      \E entry \in {response.crops_filtered_out[i]} :
        /\ i <= Len(ReqCandidates)
        /\ entry.crop = ReqCandidates[i].crop
        /\ Lower(entry.crop) \in CropKeys
        /\ ~SoilListed(entry.crop, ReqSoil)
        /\ entry.reason = validate_crop(entry.crop, ReqSoil, request.m).warnings[1]
        /\ entry.reason.kind = "soil_not_suitable" <=> PhPassedFor(entry.crop)
        /\ entry.reason.kind = "ph_unsuitable" <=> ~PhPassedFor(entry.crop)
        /\ entry.reason.kind # "soil_type_mismatch"

\* two candidates were filtered out, one whose pH check passed and one whose
\* pH check failed
C28_Witness ==
  /\ HybridDone
  /\ \E i, j \in 1..Len(response.crops_filtered_out) :
       /\ PhPassedFor(response.crops_filtered_out[i].crop)
       /\ response.crops_filtered_out[i].reason.kind = "soil_not_suitable"
       /\ ~PhPassedFor(response.crops_filtered_out[j].crop)
       /\ response.crops_filtered_out[j].reason.kind = "ph_unsuitable"
       /\ Len(validate_crop(response.crops_filtered_out[j].crop, ReqSoil, request.m).warnings) >= 2

(***************************************************************************)
(* The ML top crop among its own alternatives.                             *)
(***************************************************************************)
\* the crop classifier is loaded and has predict_proba
CropHasProba == request.crop_model # None /\ request.crop_model[1].has_proba

\* the crops-skipped suggestion names exactly these crops
SkippedSuggestionNames(names) ==
  \E i \in 1..Len(response.suggestions) :
    /\ response.suggestions[i].kind = "crops_skipped"
    /\ response.suggestions[i].names = names

\* C29: when the crop classifier has probabilities, the alternatives of
\* predict_crop begin with the recommended crop, so the candidates walked by
\* hybrid_analyze begin with the ML top crop twice; if that crop fails the
\* soil check it is recorded twice in crops_filtered_out and the crops-skipped
\* suggestion, which names the first two entries, names only that crop.
C29_TopCropWalkedTwice ==
  (HybridDone /\ CropHasProba) =>
    /\ ReqCropResult[1].alternatives # <<>>
    /\ ReqCropResult[1].alternatives[1].crop = ReqCropResult[1].recommended_crop
    /\ Len(ReqCandidates) >= 2
    /\ ReqCandidates[1].crop = ReqMlCrop
    /\ ReqCandidates[2].crop = ReqMlCrop
    /\ ~Accepted(ReqMlCrop, ReqSoil) =>
         /\ Len(response.crops_filtered_out) >= 2
         /\ response.crops_filtered_out[1].crop = ReqMlCrop
         /\ response.crops_filtered_out[2].crop = ReqMlCrop
         /\ SkippedSuggestionNames(<<ReqMlCrop, ReqMlCrop>>)

\* the top crop failed the soil check, a different crop further down was
\* accepted, and the suggestion names the top crop twice
C29_Witness ==
  /\ HybridDone
  /\ CropHasProba
  /\ ~Accepted(ReqMlCrop, ReqSoil)
  /\ Len(response.crops_filtered_out) = 2
  /\ locals.branch = "ml"
  /\ response.crop_recommendation.recommended_crop # ReqMlCrop
  /\ SkippedSuggestionNames(<<ReqMlCrop, ReqMlCrop>>)

(***************************************************************************)
(* The enhanced features.                                                  *)
(***************************************************************************)
PrepareDone == pc = "done" /\ request.op = "prepare_input"

\* the measurement is one the input boundary accepts
InBoundary(m) ==
  /\ m.temperature \in 8..55
  /\ m.humidity \in 140..1000
  /\ m.ph \in 35..100
  /\ m.rainfall \in 20..3000

\* C30: for every measurement the input boundary accepts, the enhanced
\* feature construction puts temperature, humidity, pH and rainfall each in
\* one of its bins, for the soil and for the crop feature set, so the
\* prediction goes on without an error.
C30_EveryInputBinned ==
  (PrepareDone /\ InBoundary(request.m)) =>
    /\ ~response.raised
    /\ \A c \in DOMAIN response.categories : response.categories[c] # NaN

\* the enhanced soil features of a measurement with rainfall above 500 or
\* temperature above 50: a category is NaN and the conversion raises
C30_SoilFeaturesRaise ==
  /\ PrepareDone
  /\ request.which = "soil" /\ request.is_enhanced
  /\ InBoundary(request.m)
  /\ request.m.rainfall > 500 \/ request.m.temperature > 50
  /\ response.raised

\* what holds of the code: the crop features never raise, the soil features
\* raise exactly for rainfall above 500 or temperature above 50
C30_RaisesExactlyOutsideSoilBins ==
  (PrepareDone /\ InBoundary(request.m)) =>
    (response.raised <=>
       /\ request.which = "soil" /\ request.is_enhanced
       /\ request.m.rainfall > 500 \/ request.m.temperature > 50)
=============================================================================
